---- MODULE Spec2Model ----
(***************************************************************************)
(* PolaPy, polapy/aggregate: the five aggregation strategies (borda,       *)
(* copeland, winrate, elo, ahp) and the divisiveness measures built on     *)
(* them, as functions of a table of comparison records.                    *)
(*                                                                         *)
(* A table (pandas DataFrame) is a sequence of rows, a row a record.       *)
(* Proposals and voters are the integers 1..n.  Scores are exact rationals *)
(* <<numerator, denominator>> in lowest terms with a positive denominator  *)
(* (Python computes them as floats); elo's ratings, which need log and     *)
(* 10^x, are computed in fixed point (see expected_score, log1p).          *)
(***************************************************************************)
EXTENDS Integers, Sequences, FiniteSets, TLC

\* ---------------------------------------------------------------- bounds
NumAlts == 2        \* proposals are 1..NumAlts
MaxCount == 1       \* a record's count is in 0..MaxCount
MaxLen == 2         \* records in the caller's table
MaxPasses == 2      \* elo's iterations parameter is in 1..MaxPasses
MaxIter == 3        \* ahp's max_iterations parameter is in 0..MaxIter
NumVoters == 2      \* voters are 1..NumVoters
MaxSize == 11       \* proposals of the largest table given to the diagnostic

Proposals == 1..NumAlts
Counts == 0..MaxCount

\* ------------------------------------------------------------- rationals
Abs(x) == IF x < 0 THEN -x ELSE x

RECURSIVE GCD(_, _)
GCD(a, b) == IF b = 0 THEN a ELSE GCD(b, a % b)

\* n/d in lowest terms, d > 0 (d # 0 is the caller's obligation).
Rat(n, d) ==
    LET g == GCD(Abs(n), Abs(d))
        s == IF d < 0 THEN -1 ELSE 1
    IN  <<(s * n) \div g, (s * d) \div g>>

RInt(n) == <<n, 1>>
RZero == <<0, 1>>
ROne == <<1, 1>>
\* Sums and differences over the least common denominator, products and
\* quotients with the common factors cancelled before multiplying.
RAdd(x, y) ==
    LET g == GCD(x[2], y[2])
    IN  Rat(x[1] * (y[2] \div g) + y[1] * (x[2] \div g), (x[2] \div g) * y[2])
RSub(x, y) == RAdd(x, <<-y[1], y[2]>>)
RMul(x, y) ==
    LET a == Rat(x[1], y[2])
        b == Rat(y[1], x[2])
    IN  <<a[1] * b[1], a[2] * b[2]>>
RDiv(x, y) == RMul(x, Rat(y[2], y[1]))
\* a/b < c/d for b, d > 0, by comparing the integer parts and then the
\* reciprocals of the fractional parts: no product is formed.
RECURSIVE FracLess(_, _, _, _)
FracLess(a, b, c, d) ==
    LET qa == a \div b
        qc == c \div d
        ra == a % b
        rc == c % d
    IN  IF qa # qc THEN qa < qc
        ELSE IF ra = 0 THEN rc > 0
        ELSE IF rc = 0 THEN FALSE
        ELSE FracLess(d, rc, b, ra)

RLess(x, y) == FracLess(x[1], x[2], y[1], y[2])
RLeq(x, y) == ~RLess(y, x)
RAbs(x) == <<Abs(x[1]), x[2]>>

RECURSIVE RSumSeq(_)
RSumSeq(s) == IF s = <<>> THEN RZero ELSE RAdd(Head(s), RSumSeq(Tail(s)))

RECURSIVE SumSeq(_)
SumSeq(s) == IF s = <<>> THEN 0 ELSE Head(s) + SumSeq(Tail(s))

\* ---------------------------------------------------------- table helpers
\* sorted(S): the members of a finite set of integers in ascending order.
RECURSIVE sorted(_)
sorted(S) ==
    IF S = {} THEN <<>>
    ELSE LET m == CHOOSE x \in S : \A y \in S : x <= y
         IN  <<m>> \o sorted(S \ {m})

\* The same for a set of pairs <<a, b>>, in lexicographic order (the order of
\* the keys of a pandas groupby on two columns).
PairLeq(p, q) == p[1] < q[1] \/ (p[1] = q[1] /\ p[2] <= q[2])

RECURSIVE sortedPairs(_)
sortedPairs(S) ==
    IF S = {} THEN <<>>
    ELSE LET m == CHOOSE x \in S : \A y \in S : PairLeq(x, y)
         IN  <<m>> \o sortedPairs(S \ {m})

\* A sequence given by a rule, computed once and held as a tuple.
Held(s) == s \o <<>>

RECURSIVE Flatten(_)
Flatten(ss) == IF ss = <<>> THEN <<>> ELSE Head(ss) \o Flatten(Tail(ss))

\* data[col].unique() as a set.
unique(data, col) == {data[i][col] : i \in DOMAIN data}

\* set(data[proposal].unique()) | set(data[wins_over].unique())
universe(data) == unique(data, "proposal") \cup unique(data, "wins_over")

\* sorted(set(...) | set(...)): ahp's and the measure's all_proposals.
all_proposals(data) == sorted(universe(data))

\* list(set(...)): Python fixes no order for it (it follows the hashes of the
\* members, for strings a new one in every process). The lists a set can
\* give: every sequence that holds each member once.
RECURSIVE list_of_set(_)
list_of_set(S) ==
    IF S = {} THEN {<<>>}
    ELSE UNION {{<<x>> \o rest : rest \in list_of_set(S \ {x})} : x \in S}

\* data[count] summed over the rows satisfying a test, given as the
\* sequence of counts of the selected rows.
counts_of(rows) == Held([i \in DOMAIN rows |-> rows[i].count])

\* Row i put into an order of earlier rows: before the first row of a
\* smaller key, so after every row of an equal one.
RECURSIVE insert_row(_, _, _)
insert_row(keys, order, i) ==
    IF order = <<>> THEN <<i>>
    ELSE IF RLess(keys[Head(order)], keys[i]) THEN <<i>> \o order
    ELSE <<Head(order)>> \o insert_row(keys, Tail(order), i)

\* The indices of the first n rows, by descending key.
RECURSIVE argsort(_, _)
argsort(keys, n) ==
    IF n = 0 THEN <<>> ELSE insert_row(keys, argsort(keys, n - 1), n)

\* DataFrame.sort_values(column, ascending=False).reset_index(drop=True):
\* rows by descending key (keys[i] is row i's value in the column); rows of
\* equal key keep their order.
sort_rows(rows, keys) ==
    LET order == argsort(keys, Len(rows))
    IN  Held([k \in DOMAIN order |-> rows[order[k]]])

sort_values(rows) == sort_rows(rows, Held([i \in DOMAIN rows |-> rows[i].score]))

\* sort_values on scores computed in float64 by different sums: scores that
\* are equal as exact numbers can differ in the last bit either way, and
\* their rows come in the order the rounding leaves, rounded[k] being the
\* k-th of the rows when all were equal.
sort_values_rounded(rows, rounded) ==
    sort_values(Held([k \in DOMAIN rounded |-> rows[rounded[k]]]))

\* A pair table that keeps each pair's last count instead of the sum.
pair_votes_last(data) ==
    LET keys == sortedPairs({<<data[i].proposal, data[i].wins_over>> : i \in DOMAIN data})
        last(k) == CHOOSE i \in DOMAIN data :
                       /\ <<data[i].proposal, data[i].wins_over>> = k
                       /\ \A j \in DOMAIN data :
                              <<data[j].proposal, data[j].wins_over>> = k => j <= i
    IN  Held([n \in DOMAIN keys |->
            [proposal |-> keys[n][1], wins_over |-> keys[n][2], count |-> data[last(keys[n])].count]])

\* data.groupby([proposal, wins_over])[count].sum().reset_index(): one row per
\* (proposal, wins_over) key present, in key order, with the counts summed.
pair_votes(data) ==
    LET keys == sortedPairs({<<data[i].proposal, data[i].wins_over>> : i \in DOMAIN data})
    IN  Held([k \in DOMAIN keys |->
            [proposal |-> keys[k][1], wins_over |-> keys[k][2],
             count |-> SumSeq(counts_of(SelectSeq(data,
                 LAMBDA r : r.proposal = keys[k][1] /\ r.wins_over = keys[k][2])))]])

\* ------------------------------------------------------------------ borda
\* The groupby taking each proposal's first count instead of the sum.
borda_scores_first(data) ==
    LET keys == sorted(unique(data, "proposal"))
    IN  Held([k \in DOMAIN keys |->
            [proposal |-> keys[k],
             score |-> RInt(Head(counts_of(SelectSeq(data,
                 LAMBDA r : r.proposal = keys[k]))))]])

\* data.groupby(proposal)[count].sum().reset_index(), columns [proposal, score]
borda_scores(data) ==
    LET keys == sorted(unique(data, "proposal"))
    IN  Held([k \in DOMAIN keys |->
            [proposal |-> keys[k],
             score |-> RInt(SumSeq(counts_of(SelectSeq(data,
                 LAMBDA r : r.proposal = keys[k]))))]])

\* An inner merge: a proposal with no row on the right is dropped.
merge_inner(left, right) ==
    Flatten(Held([i \in DOMAIN left |->
        SelectSeq(right, LAMBDA r : r.proposal = left[i])]))

\* pd.merge(left, right, on=proposal, how="left") followed by fillna(0): for
\* each row of left, one row per matching row of right, or one row with
\* score 0 when nothing matches.
merge_left_fillna(left, right) ==
    Flatten(Held([i \in DOMAIN left |->
        LET m == SelectSeq(right, LAMBDA r : r.proposal = left[i])
        IN  IF m = <<>> THEN <<[proposal |-> left[i], score |-> RZero]>> ELSE m]))

\* The merge of all_proposals_df with the scores, and the sort: proposals is
\* list(all_proposals), the rows of all_proposals_df.
borda_frame(scores, proposals) ==
    sort_values(merge_left_fillna(proposals, scores))

borda(data, proposals) == borda_frame(borda_scores(data), proposals)

\* --------------------------------------------------------------- copeland
\* tuple(sorted([p1, p2]))
pair_key(p1, p2) == IF p1 <= p2 THEN <<p1, p2>> ELSE <<p2, p1>>

\* pair_votes[(pair_votes[proposal] == a) & (pair_votes[wins_over] == b)][count].sum()
votes(pv, a, b) ==
    SumSeq(counts_of(SelectSeq(pv, LAMBDA r : r.proposal = a /\ r.wins_over = b)))

\* The loop body without the pairs_seen test: a pair voted in both
\* directions is tallied once per direction.
copeland_row_unseen(st, row, pv) ==
    LET p1 == row.proposal
        p2 == row.wins_over
        votes_p1_over_p2 == votes(pv, p1, p2)
        votes_p2_over_p1 == votes(pv, p2, p1)
    IN  IF votes_p1_over_p2 > votes_p2_over_p1
             THEN [st EXCEPT !.wins[p1] = @ + 1, !.losses[p2] = @ + 1]
        ELSE IF votes_p2_over_p1 > votes_p1_over_p2
             THEN [st EXCEPT !.wins[p2] = @ + 1, !.losses[p1] = @ + 1]
        ELSE st

\* The loop body that scores a tie as a win of the row's first proposal.
copeland_row_tie_wins(st, row, pv) ==
    LET p1 == row.proposal
        p2 == row.wins_over
        key == pair_key(p1, p2)
        votes_p1_over_p2 == votes(pv, p1, p2)
        votes_p2_over_p1 == votes(pv, p2, p1)
        seen == [st EXCEPT !.pairs_seen = @ \cup {key}]
    IN  IF key \in st.pairs_seen THEN st
        ELSE IF votes_p1_over_p2 > votes_p2_over_p1
             THEN [seen EXCEPT !.wins[p1] = @ + 1, !.losses[p2] = @ + 1]
        ELSE IF votes_p2_over_p1 > votes_p1_over_p2
             THEN [seen EXCEPT !.wins[p2] = @ + 1, !.losses[p1] = @ + 1]
        ELSE [seen EXCEPT !.wins[p1] = @ + 1]

\* The loop body whose second branch records the win and forgets the loss.
copeland_row_no_loss(st, row, pv) ==
    LET p1 == row.proposal
        p2 == row.wins_over
        key == pair_key(p1, p2)
        votes_p1_over_p2 == votes(pv, p1, p2)
        votes_p2_over_p1 == votes(pv, p2, p1)
        seen == [st EXCEPT !.pairs_seen = @ \cup {key}]
    IN  IF key \in st.pairs_seen THEN st
        ELSE IF votes_p1_over_p2 > votes_p2_over_p1
             THEN [seen EXCEPT !.wins[p1] = @ + 1, !.losses[p2] = @ + 1]
        ELSE IF votes_p2_over_p1 > votes_p1_over_p2
             THEN [seen EXCEPT !.wins[p2] = @ + 1]
        ELSE seen

\* The body of copeland's loop for one row of pair_votes: st holds
\* pairs_seen and the wins and losses dictionaries.
copeland_row(st, row, pv) ==
    LET p1 == row.proposal
        p2 == row.wins_over
        key == pair_key(p1, p2)
        votes_p1_over_p2 == votes(pv, p1, p2)
        votes_p2_over_p1 == votes(pv, p2, p1)
        seen == [st EXCEPT !.pairs_seen = @ \cup {key}]
    IN  IF key \in st.pairs_seen THEN st
        ELSE IF votes_p1_over_p2 > votes_p2_over_p1
             THEN [seen EXCEPT !.wins[p1] = @ + 1, !.losses[p2] = @ + 1]
        ELSE IF votes_p2_over_p1 > votes_p1_over_p2
             THEN [seen EXCEPT !.wins[p2] = @ + 1, !.losses[p1] = @ + 1]
        ELSE seen

RECURSIVE copeland_loop(_, _, _)
copeland_loop(st, rows, pv) ==
    IF rows = <<>> THEN st
    ELSE copeland_loop(copeland_row(st, Head(rows), pv), Tail(rows), pv)

\* The table copeland tallies: one row per directed pair, counts summed.
copeland_pair_votes(data) == pair_votes(data)

\* pairs_seen, wins and losses after the loop over pair_votes.
copeland_tally(data) ==
    LET pv == copeland_pair_votes(data)
        st0 == [pairs_seen |-> {},
                wins |-> [p \in universe(data) |-> 0],
                losses |-> [p \in universe(data) |-> 0]]
    IN  copeland_loop(st0, pv, pv)

\* The frame of wins - losses and its sort: proposals is the list
\* all_proposals.
copeland_frame(st, proposals) ==
    LET props == proposals
    IN  sort_values(Held([i \in DOMAIN props |->
            [proposal |-> props[i],
             score |-> RInt(st.wins[props[i]] - st.losses[props[i]])]]))

copeland(data, proposals) == copeland_frame(copeland_tally(data), proposals)

\* ---------------------------------------------------------------- winrate
\* The loop body that counts a matchup for the winner only.
winrate_row_winner_only(st, row) ==
    LET winner == row.proposal
        v == row.count
    IN  [wins |-> [st.wins EXCEPT ![winner] = @ + v],
         total_votes |-> [st.total_votes EXCEPT ![winner] = @ + v]]

\* The body of winrate's loop for one row of pair_votes.
winrate_row(st, row) ==
    LET winner == row.proposal
        loser == row.wins_over
        v == row.count
        w1 == [st.wins EXCEPT ![winner] = @ + v]
        t1 == [st.total_votes EXCEPT ![winner] = @ + v]
        t2 == [t1 EXCEPT ![loser] = @ + v]
    IN  [wins |-> w1, total_votes |-> t2]

RECURSIVE winrate_loop(_, _)
winrate_loop(st, rows) ==
    IF rows = <<>> THEN st ELSE winrate_loop(winrate_row(st, Head(rows)), Tail(rows))

\* wins[p] / total_votes[p] if total_votes[p] > 0 else 0
winrate_score(wins, total) == IF total > 0 THEN Rat(wins, total) ELSE RZero

\* wins and total_votes after the loop over pair_votes.
winrate_tally(data) ==
    LET st0 == [wins |-> [p \in universe(data) |-> 0],
                total_votes |-> [p \in universe(data) |-> 0]]
    IN  winrate_loop(st0, pair_votes(data))

\* The frame of the win rates and its sort: proposals is the list
\* all_proposals.
winrate_frame(st, proposals) ==
    LET props == proposals
    IN  sort_values(Held([i \in DOMAIN props |->
            [proposal |-> props[i],
             score |-> winrate_score(st.wins[props[i]], st.total_votes[props[i]])]]))

winrate(data, proposals) == winrate_frame(winrate_tally(data), proposals)

\* -------------------------------------------------------------------- elo
(***************************************************************************)
(* elo computes in floating point with np.log1p and 10 ** x.  The model    *)
(* computes the same formulas in fixed point: a rating is an integer       *)
(* number of hundredths of a rating point, an expected score and a         *)
(* logarithm are integers in units of 1/FixedPoint, and exp and log are    *)
(* summed from their series.  A modelled rating is within a few hundredths *)
(* of a point of the float the code computes.                              *)
(***************************************************************************)
FixedPoint == 10000
RatingUnit == 100
SeriesTerms == 14

base_rating == 1000
k_factor == 32

\* Integer division rounding to the nearest integer (b > 0).
TDiv(a, b) == IF a >= 0 THEN (2 * a + b) \div (2 * b) ELSE -((2 * (-a) + b) \div (2 * b))

\* exp(z), z and the result in units of 1/FixedPoint: sum of z^k / k!.
RECURSIVE exp_series(_, _, _, _)
exp_series(z, term, k, acc) ==
    IF k > SeriesTerms THEN acc
    ELSE LET t == TDiv(term * z, FixedPoint * k)
         IN  exp_series(z, t, k + 1, acc + t)

\* 10 ** (d / 400) for a rating difference d in hundredths of a point:
\* exp(d * ln(10) / 400), ln(10) / 400 = 0.0057565.
pow10_400(d) ==
    LET z == TDiv(d * 5756, 10000)
    IN  exp_series(z, FixedPoint, 1, FixedPoint)

\* expected_score(rating_a, rating_b) = 1 / (1 + 10 ** ((rating_b - rating_a) / 400))
expected_score(rating_a, rating_b) ==
    TDiv(FixedPoint * FixedPoint, FixedPoint + pow10_400(rating_b - rating_a))

\* np.log1p(c) = ln(1 + c), in units of 1/FixedPoint, from
\* ln(x) = 2 * atanh(y) = 2 * sum of y^(2k+1) / (2k+1) with y = (x - 1) / (x + 1).
RECURSIVE atanh_series(_, _, _, _)
atanh_series(y2, power, k, acc) ==
    IF k > SeriesTerms \/ power = 0 THEN acc
    ELSE LET p == TDiv(power * y2, FixedPoint)
         IN  atanh_series(y2, p, k + 1, acc + TDiv(p, 2 * k + 1))

\* ln(num / den) for num >= den > 0: halve the argument until it is at most 2
\* (ln(x) = ln(2) + ln(x / 2)), then sum the series with y = (x - 1) / (x + 1).
RECURSIVE ln_ratio(_, _)
ln_ratio(num, den) ==
    IF num > 2 * den THEN ln_ratio(2, 1) + ln_ratio(num, 2 * den)
    ELSE LET y == TDiv((num - den) * FixedPoint, num + den)
             y2 == TDiv(y * y, FixedPoint)
         IN  2 * atanh_series(y2, y, 1, y)

log1p(c) == ln_ratio(1 + c, 1)

\* The loop body with the loser's expected score taken after the winner's
\* rating has moved.
elo_row_stale(ratings, row) ==
    LET winner == row.proposal
        loser == row.wins_over
        match_count == row.count
        exp_winner == expected_score(ratings[winner], ratings[loser])
        k_scaled == TDiv(k_factor * log1p(match_count), 10)
        r1 == [ratings EXCEPT ![winner] =
                  @ + TDiv(k_scaled * (FixedPoint - exp_winner), 10 * FixedPoint)]
        exp_loser == expected_score(r1[loser], r1[winner])
    IN  [r1 EXCEPT ![loser] = @ + TDiv(k_scaled * (0 - exp_loser), 10 * FixedPoint)]

\* The loop body taking the winner's expected score for the loser too.
elo_row_same(ratings, row) ==
    LET winner == row.proposal
        loser == row.wins_over
        match_count == row.count
        exp_winner == expected_score(ratings[winner], ratings[loser])
        k_scaled == TDiv(k_factor * log1p(match_count), 10)
        r1 == [ratings EXCEPT ![winner] =
                  @ + TDiv(k_scaled * (FixedPoint - exp_winner), 10 * FixedPoint)]
    IN  [r1 EXCEPT ![loser] = @ + TDiv(k_scaled * (0 - exp_winner), 10 * FixedPoint)]

\* The body of elo's loop for one row: the two expected scores from the
\* ratings before the row, then both ratings updated.
elo_row(ratings, row) ==
    LET winner == row.proposal
        loser == row.wins_over
        match_count == row.count
        exp_winner == expected_score(ratings[winner], ratings[loser])
        exp_loser == expected_score(ratings[loser], ratings[winner])
        k_scaled == TDiv(k_factor * log1p(match_count), 10)
        r1 == [ratings EXCEPT ![winner] =
                  @ + TDiv(k_scaled * (FixedPoint - exp_winner), 10 * FixedPoint)]
    IN  [r1 EXCEPT ![loser] = @ + TDiv(k_scaled * (0 - exp_loser), 10 * FixedPoint)]

\* The rows aggregated per pair and walked in key order, as the other
\* strategies read them.
elo_rows_grouped(data) == pair_votes(data)

\* for _, row in data.iterrows(): the rows elo walks, in the order it walks them.
elo_rows(data) == data

RECURSIVE elo_pass(_, _)
elo_pass(ratings, rows) ==
    IF rows = <<>> THEN ratings ELSE elo_pass(elo_row(ratings, Head(rows)), Tail(rows))

\* for _ in range(iterations): one pass over the rows each.
RECURSIVE elo_passes(_, _, _)
elo_passes(ratings, rows, iterations) ==
    IF iterations <= 0 THEN ratings
    ELSE elo_passes(elo_pass(ratings, rows), rows, iterations - 1)

elo_ratings(data, iterations) ==
    elo_passes([p \in universe(data) |-> base_rating * RatingUnit],
               elo_rows(data), iterations)

\* scores: one row per key of ratings, in the order of the list
\* all_proposals the dict was filled in, then sorted.
elo_scores(ratings, proposals) ==
    sort_values(Held([i \in DOMAIN proposals |->
        [proposal |-> proposals[i], score |-> Rat(ratings[proposals[i]], RatingUnit)]]))

\* proposals is the list all_proposals.
elo(data, iterations, proposals) == elo_scores(elo_ratings(data, iterations), proposals)

\* -------------------------------------------------------------------- ahp
default_max_iterations == 100
\* tolerance = 1e-6
default_tolerance == <<1, 1000000>>

\* x < t for rationals x >= 0 and t, without forming the product of the two
\* denominators' cofactors beyond t's numerator times x's denominator.
RLessTol(x, t) ==
    IF t[1] <= 0 THEN x[1] < 0 /\ RLess(x, t)
    ELSE x[1] <= (t[1] * x[2] - 1) \div t[2]

\* matrix = np.ones((n, n)); matrix[i, j] += count for each row of pair_votes.
ahp_votes_matrix(props, pv) ==
    Held([i \in DOMAIN props |-> Held([j \in DOMAIN props |->
        1 + votes(pv, props[i], props[j])])])

\* The ratio without the division.
ahp_ratio_raw(mij, mji) == RInt(mij)

\* ratio = matrix[i, j] / matrix[j, i] if matrix[j, i] > 0 else matrix[i, j]
ahp_ratio(mij, mji) == IF mji > 0 THEN Rat(mij, mji) ELSE RInt(mij)

\* matrix[j, i] = 1 / ratio if ratio > 0 else 1
ahp_reciprocal(ratio) == IF RLess(RZero, ratio) THEN RDiv(ROne, ratio) ELSE ROne

\* The matrix without np.fill_diagonal: the diagonal keeps 1 plus the
\* self-preference votes.
ahp_matrix_no_fill(props, pv) ==
    LET m == ahp_votes_matrix(props, pv)
    IN  Held([i \in DOMAIN props |-> Held([j \in DOMAIN props |->
            IF i = j THEN RInt(m[i][i])
            ELSE IF i < j THEN ahp_ratio(m[i][j], m[j][i])
            ELSE ahp_reciprocal(ahp_ratio(m[j][i], m[i][j]))])])

\* The reciprocal loop over i < j, then np.fill_diagonal(matrix, 1.0).
ahp_matrix(props, pv) ==
    LET m == ahp_votes_matrix(props, pv)
    IN  Held([i \in DOMAIN props |-> Held([j \in DOMAIN props |->
            IF i = j THEN ROne
            ELSE IF i < j THEN ahp_ratio(m[i][j], m[j][i])
            ELSE ahp_reciprocal(ahp_ratio(m[j][i], m[i][j]))])])

\* matrix @ weights
mat_vec(matrix, weights) ==
    Held([i \in DOMAIN matrix |->
        RSumSeq(Held([j \in DOMAIN weights |-> RMul(matrix[i][j], weights[j])]))])

\* The iterate left unnormalised.
normalise_skip(v) == v

\* new_weights / new_weights.sum()
normalise(v) == LET total == RSumSeq(v) IN Held([i \in DOMAIN v |-> RDiv(v[i], total)])

\* np.max(np.abs(new_weights - weights)) < tolerance
converged(new_weights, weights, tolerance) ==
    \A i \in DOMAIN weights :
        RLessTol(RAbs(RSub(new_weights[i], weights[i])), tolerance)

\* The loop leaving out the assignment of its last pass.
RECURSIVE power_method_drop_last(_, _, _, _)
power_method_drop_last(matrix, weights, max_iterations, tolerance) ==
    IF max_iterations <= 0 THEN weights
    ELSE LET new_weights == normalise(mat_vec(matrix, weights))
         IN  IF converged(new_weights, weights, tolerance) \/ max_iterations = 1 THEN weights
             ELSE power_method_drop_last(matrix, new_weights, max_iterations - 1, tolerance)

\* The loop assigning the new vector before it tests the change.
RECURSIVE power_method_assign_first(_, _, _, _)
power_method_assign_first(matrix, weights, max_iterations, tolerance) ==
    IF max_iterations <= 0 THEN weights
    ELSE LET new_weights == normalise(mat_vec(matrix, weights))
         IN  IF converged(new_weights, weights, tolerance) THEN new_weights
             ELSE power_method_assign_first(matrix, new_weights, max_iterations - 1, tolerance)

\* for _ in range(max_iterations): ... if converged: break; weights = new_weights
RECURSIVE power_method(_, _, _, _)
power_method(matrix, weights, max_iterations, tolerance) ==
    IF max_iterations <= 0 THEN weights
    ELSE LET new_weights == normalise(mat_vec(matrix, weights))
         IN  IF converged(new_weights, weights, tolerance) THEN weights
             ELSE power_method(matrix, new_weights, max_iterations - 1, tolerance)

\* The number of times the loop evaluates matrix @ weights.
RECURSIVE multiplications(_, _, _, _)
multiplications(matrix, weights, max_iterations, tolerance) ==
    IF max_iterations <= 0 THEN 0
    ELSE LET new_weights == normalise(mat_vec(matrix, weights))
         IN  IF converged(new_weights, weights, tolerance) THEN 1
             ELSE 1 + multiplications(matrix, new_weights, max_iterations - 1, tolerance)

\* The number of times the loop assigns weights = new_weights.
RECURSIVE assignments(_, _, _, _)
assignments(matrix, weights, max_iterations, tolerance) ==
    IF max_iterations <= 0 THEN 0
    ELSE LET new_weights == normalise(mat_vec(matrix, weights))
         IN  IF converged(new_weights, weights, tolerance) THEN 0
             ELSE 1 + assignments(matrix, new_weights, max_iterations - 1, tolerance)

\* weights = np.ones(n) / n
uniform(n) == Held([i \in 1..n |-> Rat(1, n)])

\* np.max of an array of size 0: "zero-size array to reduction operation
\* maximum which has no identity".
zero_size_maximum == [raised |-> "ValueError", by |-> "np.max"]

\* weights when the loop is left.
ahp_weights(data, max_iterations, tolerance) ==
    LET props == all_proposals(data)
    IN  power_method(ahp_matrix(props, pair_votes(data)), uniform(Len(props)),
                     max_iterations, tolerance)

\* The table returned for the weights. With no proposal, the first pass of
\* the loop takes np.max of an empty array and the call raises; the
\* exception is held as the only row.
ahp_scores(data, weights, max_iterations, rounded) ==
    LET props == all_proposals(data)
    IN  IF Len(props) = 0 /\ max_iterations > 0 THEN <<zero_size_maximum>>
        ELSE sort_values_rounded(Held([i \in DOMAIN props |->
                 [proposal |-> props[i], score |-> weights[i]]]), rounded)

\* rounded: the order float64 rounding leaves among the weights, a list of
\* their indices.
ahp(data, max_iterations, tolerance, rounded) ==
    ahp_scores(data, ahp_weights(data, max_iterations, tolerance), max_iterations, rounded)

\* The orders rounding can leave among the weights a call returns: any, when
\* they come from a multiplication; when the loop assigned none they are
\* np.ones(n) / n, n times the same float, and keep the order of their rows.
roundings(data, max_iterations, tolerance) ==
    LET props == all_proposals(data)
        n == Len(props)
    IN  IF n = 0 \/ assignments(ahp_matrix(props, pair_votes(data)), uniform(n),
                                max_iterations, tolerance) = 0
        THEN {Held([i \in 1..n |-> i])}
        ELSE list_of_set(1..n)

\* The passes of the loop a call of ahp makes.
ahp_multiplications(data, max_iterations, tolerance) ==
    LET props == all_proposals(data)
    IN  multiplications(ahp_matrix(props, pair_votes(data)), uniform(Len(props)),
                        max_iterations, tolerance)

\* RI: the Random Index for matrices of size 1 to 10.
RI == <<RZero, RZero, <<29, 50>>, <<9, 10>>, <<28, 25>>,
        <<31, 25>>, <<33, 25>>, <<141, 100>>, <<29, 20>>, <<149, 100>>>>

\* The diagnostic with the clamped size in the Consistency Index too.
ahp_consistency_ratio_clamped(data) ==
    LET props == all_proposals(data)
        n == IF Len(props) > 10 THEN 10 ELSE Len(props)
    IN  IF n <= 2 THEN [CI |-> RZero, CR |-> RZero]
        ELSE LET CI == [lambda_max_of |-> ahp_matrix(props, pair_votes(data)),
                        minus |-> n, over |-> n - 1]
             IN  [CI |-> CI, CR |-> [CI |-> CI, over |-> RI[n]]]

\* (CI, CR). With more than two proposals the largest eigenvalue of the
\* matrix is not a rational: CI and CR are held by the matrix and the
\* numbers they are computed from.
ahp_consistency_ratio(data) ==
    LET props == all_proposals(data)
        n == IF Len(props) > 10 THEN 10 ELSE Len(props)
    IN  IF n <= 2 THEN [CI |-> RZero, CR |-> RZero]
        ELSE LET CI == [lambda_max_of |-> ahp_matrix(props, pair_votes(data)),
                        minus |-> Len(props), over |-> Len(props) - 1]
             IN  [CI |-> CI, CR |-> [CI |-> CI, over |-> RI[n]]]


\* ----------------------------------------------------------- divisiveness
\* AGGREGATION_METHODS, in the order of the dictionary's keys.
AGGREGATION_METHODS == <<"borda", "copeland", "ahp", "elo", "winrate">>

\* A method that is not a string is the caller's own function. The one the
\* model's callers pass returns a row only for the proposals that win a
\* record, with the sum of the counts they win.
wins_only == "<function wins_only>"

Callables == {wins_only}

\* isinstance(method, str)
isinstance_str(method) == method \notin Callables

\* method not in AGGREGATION_METHODS
not_in_registry(method) ==
    \A k \in DOMAIN AGGREGATION_METHODS : AGGREGATION_METHODS[k] # method

\* The registry with the functions of "ahp" and "elo" under each other's name.
agg_func_exchanged(method, table) ==
    CASE method = "borda" ->
             {borda_frame(scores, proposals) :
                 scores \in {borda_scores(table)}, proposals \in list_of_set(universe(table))}
      [] method = "copeland" ->
             {copeland_frame(st, proposals) :
                 st \in {copeland_tally(table)}, proposals \in list_of_set(universe(table))}
      [] method = "elo" ->
             {ahp(table, default_max_iterations, default_tolerance, rounded) :
                 rounded \in roundings(table, default_max_iterations, default_tolerance)}
      [] method = "ahp" ->
             {elo_scores(ratings, proposals) :
                 ratings \in {elo_ratings(table, 1)}, proposals \in list_of_set(universe(table))}
      [] method = "winrate" ->
             {winrate_frame(st, proposals) :
                 st \in {winrate_tally(table)}, proposals \in list_of_set(universe(table))}
      [] method = wins_only -> {sort_values(borda_scores(table))}

\* agg_func(table, proposal=, wins_over=, count=): AGGREGATION_METHODS[method]
\* for a string, the strategy of that name with its default parameters, and
\* the caller's function otherwise.
\* Every frame the call can return: the strategy's frame for each list its
\* set of proposals can give (borda(table, proposals) and the like, the part
\* before the list is used computed once), and for ahp for each order its
\* rounded weights can take.
agg_func(method, table) ==
    CASE method = "borda" ->
             {borda_frame(scores, proposals) :
                 scores \in {borda_scores(table)}, proposals \in list_of_set(universe(table))}
      [] method = "copeland" ->
             {copeland_frame(st, proposals) :
                 st \in {copeland_tally(table)}, proposals \in list_of_set(universe(table))}
      [] method = "ahp" ->
             {ahp(table, default_max_iterations, default_tolerance, rounded) :
                 rounded \in roundings(table, default_max_iterations, default_tolerance)}
      [] method = "elo" ->
             {elo_scores(ratings, proposals) :
                 ratings \in {elo_ratings(table, 1)}, proposals \in list_of_set(universe(table))}
      [] method = "winrate" ->
             {winrate_frame(st, proposals) :
                 st \in {winrate_tally(table)}, proposals \in list_of_set(universe(table))}
      [] method = wins_only -> {sort_values(borda_scores(table))}

\* raise ValueError(f"Unknown method '{method}'. Available methods: ...")
unknown_method(method) ==
    [raised |-> "ValueError", method |-> method, available |-> AGGREGATION_METHODS]

\* The voters of every record a wins, whoever loses it.
voters_over_any(data, a, b) ==
    {data[k].voter : k \in {i \in DOMAIN data : data[i].proposal = a}}

\* data[(data[proposal] == a) & (data[wins_over] == b)][voter].unique()
voters_over(data, a, b) ==
    {data[k].voter : k \in {i \in DOMAIN data : data[i].proposal = a /\ data[i].wins_over = b}}

\* data[data[voter].isin(voters)]
voter_subset(data, voters) == SelectSeq(data, LAMBDA r : r.voter \in voters)

\* scores[scores[proposal] == p]["score"].values, then [0] if any else 0.0
score_of(scores, p) ==
    LET hit == SelectSeq(scores, LAMBDA r : r.proposal = p)
    IN  IF Len(hit) > 0 THEN hit[1].score ELSE RZero

\* What a measure reads from the frame agg_func returned, given every frame
\* it can return: the frames differ in the order of their rows only, and a
\* read by proposal, or of the largest or smallest score, has one value in
\* all of them.
read(values) == CHOOSE v \in values : TRUE

score_in(frames, p) == read({score_of(scores, p) : scores \in frames})

\* The score with an empty set of voters read as the whole electorate.
subpopulation_score_all(data, method, voters, prop_i) ==
    IF Cardinality(voters) > 0
    THEN score_in(agg_func(method, pair_votes(voter_subset(data, voters))), prop_i)
    ELSE score_in(agg_func(method, pair_votes(data)), prop_i)

\* The score from the voters' records as the caller ordered them, without the
\* groupby.
subpopulation_score_raw(data, method, voters, prop_i) ==
    IF Cardinality(voters) > 0
    THEN score_in(agg_func(method, voter_subset(data, voters)), prop_i)
    ELSE RZero

\* The score of prop_i among the given voters: 0.0 when there are none, else
\* the strategy run on those voters' records, re-aggregated per pair.
subpopulation_score(data, method, voters, prop_i) ==
    IF Cardinality(voters) > 0
    THEN score_in(agg_func(method, pair_votes(voter_subset(data, voters))), prop_i)
    ELSE RZero

\* diff ** 2 for one rival prop_j.
squared_diff(data, method, prop_i, prop_j) ==
    LET score_i_from_i_voters ==
            subpopulation_score(data, method, voters_over(data, prop_i, prop_j), prop_i)
        score_i_from_j_voters ==
            subpopulation_score(data, method, voters_over(data, prop_j, prop_i), prop_i)
        diff == RSub(score_i_from_i_voters, score_i_from_j_voters)
    IN  RMul(diff, diff)

\* squared_diffs_sum for prop_i over its rivals.
squared_diffs_sum(data, method, props, prop_i) ==
    RSumSeq(Held([k \in DOMAIN props |->
        IF props[k] = prop_i THEN RZero ELSE squared_diff(data, method, prop_i, props[k])]))

(***************************************************************************)
(* A divisiveness value np.sqrt(s) / (N - 1) is held as the radicand s and *)
(* the divisor N - 1, and a mean of such values as all their radicands and *)
(* the product of the divisors: the value is                               *)
(* (sum of the square roots of the radicands) / over.                      *)
(***************************************************************************)
root_over(s, d) == [radicands |-> <<s>>, over |-> d]
zero_float == [radicands |-> <<>>, over |-> 1]

\* result_df["divisiveness"].mean()
mean_of(rows) ==
    IF rows = <<>> THEN zero_float
    ELSE [radicands |-> Flatten(Held([i \in DOMAIN rows |-> rows[i].divisiveness.radicands])),
          over |-> rows[1].divisiveness.over * Len(rows)]

\* A degenerate result without the rows.
degenerate_empty(props) == [mean |-> zero_float, table |-> <<>>]

\* The values the general path would divide by N - 1 when N < 2.
degenerate_divided(props) ==
    LET rows == Held([i \in DOMAIN props |->
                    [proposal |-> props[i],
                     divisiveness |-> root_over(RZero, Len(props) - 1)]])
    IN  [mean |-> mean_of(rows), table |-> rows]

\* What divisiveness returns when N < 2.
degenerate(props) ==
    [mean |-> zero_float,
     table |-> Held([i \in DOMAIN props |->
                  [proposal |-> props[i], divisiveness |-> zero_float]])]

\* The sort of result_df by descending divisiveness. The rows share their
\* divisor, so the order is that of the radicands. Rows of equal radicand
\* are equal in exact arithmetic only: the float64 values
\* np.sqrt(sum) / (N - 1) of two of them can lie an ulp apart (2/3 - 1/2 and
\* 1/2 - 1/3 are different floats), and the larger float comes first.
\* rounded lists the rows from the one rounded up most to the one rounded
\* down most; which rows of equal radicand do differ as floats is not
\* computed, and every order of them is left open. A radicand of 0 is a sum
\* of squares of differences that are all 0.0 (a score of borda, copeland
\* or winrate is an integer or one rounded quotient of integers, so equal
\* scores are equal floats): rows of 0 are equal as floats too and keep
\* their order.
sort_by_divisiveness(rows, rounded) ==
    LET n == Len(rows)
        key(i) == rows[i].divisiveness.radicands[1]
        place(i) == CHOOSE k \in 1..n : rounded[k] = i
        before(j, i) ==
            \/ RLess(key(i), key(j))
            \/ /\ key(j) = key(i)
               /\ IF key(i) = RZero THEN j < i ELSE place(j) < place(i)
        rank(i) == Cardinality({j \in 1..n : before(j, i)}) + 1
    IN  Held([k \in 1..n |-> rows[CHOOSE i \in 1..n : rank(i) = k]])

\* What a measure returns for result_df as it is before the sort: the sorted
\* frame and its mean, for every order the rounding can leave.
sorted_frames(result_df) ==
    {[mean |-> mean_of(rows), table |-> rows] :
        rows \in {sort_by_divisiveness(result_df, rounded) :
                     rounded \in list_of_set(DOMAIN result_df)}}

\* The body of divisiveness after the method is resolved: every result the
\* call can return.
divisiveness_scores(data, method) ==
    LET props == all_proposals(data)
        N == Len(props)
    IN  IF N < 2 THEN {degenerate(props)}
        ELSE UNION {sorted_frames(result_df) :
                 result_df \in {Held([i \in DOMAIN props |->
                     [proposal |-> props[i],
                      divisiveness |->
                          root_over(squared_diffs_sum(data, method, props, props[i]),
                                    N - 1)]])}}

\* The method looked up only after the universe's size is tested.
divisiveness_universe_first(data, method) ==
    IF Len(all_proposals(data)) < 2 THEN {degenerate(all_proposals(data))}
    ELSE IF isinstance_str(method) /\ not_in_registry(method) THEN {unknown_method(method)}
    ELSE divisiveness_scores(data, method)

divisiveness(data, method) ==
    IF isinstance_str(method) /\ not_in_registry(method) THEN {unknown_method(method)}
    ELSE divisiveness_scores(data, method)

\* The tables divisiveness passes to agg_func, in the order of the calls: for
\* each prop_i and each rival prop_j, the sub-table of the voters of prop_i
\* over prop_j when there are any, then that of the voters of prop_j over
\* prop_i when there are any.
side_call(data, voters) ==
    IF Cardinality(voters) > 0 THEN <<pair_votes(voter_subset(data, voters))>> ELSE <<>>

divisiveness_calls(data, method) ==
    IF isinstance_str(method) /\ not_in_registry(method) THEN <<>>
    ELSE LET props == all_proposals(data)
         IN  IF Len(props) < 2 THEN <<>>
             ELSE Flatten(Held([i \in DOMAIN props |->
                      Flatten(Held([j \in DOMAIN props |->
                          IF i = j THEN <<>>
                          ELSE side_call(data, voters_over(data, props[i], props[j]))
                               \o side_call(data, voters_over(data, props[j], props[i]))]))]))

\* ---------------------------------------------------- divisiveness_simple
\* max(global_scores_dict.values()) and min(...) of a non-empty score table.
RECURSIVE max_of(_)
max_of(rows) ==
    IF Len(rows) = 1 THEN rows[1].score
    ELSE LET m == max_of(Tail(rows))
         IN  IF RLess(m, rows[1].score) THEN rows[1].score ELSE m

RECURSIVE min_of(_)
min_of(rows) ==
    IF Len(rows) = 1 THEN rows[1].score
    ELSE LET m == min_of(Tail(rows))
         IN  IF RLess(rows[1].score, m) THEN rows[1].score ELSE m

\* max_score, min_score: 1 and 0 when the strategy returned no row.
max_score(global_scores) ==
    read({IF Len(scores) > 0 THEN max_of(scores) ELSE ROne : scores \in global_scores})
min_score(global_scores) ==
    read({IF Len(scores) > 0 THEN min_of(scores) ELSE RZero : scores \in global_scores})

\* score_range = max_score - min_score if max_score != min_score else 1
score_range(global_scores) ==
    IF max_score(global_scores) # min_score(global_scores)
    THEN RSub(max_score(global_scores), min_score(global_scores))
    ELSE ROne

\* A subset that loses both rows of the pair.
preference_subset_both(pv, keep, drop) ==
    SelectSeq(pv, LAMBDA r : /\ r.count > 0
                             /\ ~(r.proposal = drop /\ r.wins_over = keep)
                             /\ ~(r.proposal = keep /\ r.wins_over = drop))

\* subset_i for keep = prop_i, drop = prop_j (subset_j with the two
\* exchanged): the count of the row of drop over keep is set to 0, every
\* other row keeps its count, and the rows with a count of 0 are removed.
preference_subset(pv, keep, drop) ==
    LET zeroed == Held([k \in DOMAIN pv |->
            IF (pv[k].proposal = keep /\ pv[k].wins_over = drop)
               \/ (pv[k].proposal # drop \/ pv[k].wins_over # keep)
            THEN pv[k]
            ELSE [pv[k] EXCEPT !.count = 0]])
    IN  SelectSeq(zeroed, LAMBDA r : r.count > 0)

\* score_i_in_subset_i / score_i_in_subset_j: (score - min_score) / score_range
\* of prop_i's row in the strategy's result on the subset, 0 when the result
\* has no such row or the subset is empty.
normalised_score(method, subset, prop_i, lo, range) ==
    IF Len(subset) > 0
    THEN read({LET hit == SelectSeq(scores, LAMBDA r : r.proposal = prop_i)
               IN  IF Len(hit) > 0 THEN RDiv(RSub(hit[1].score, lo), range) ELSE RZero :
                  scores \in agg_func(method, subset)})
    ELSE RZero

\* The difference taken against the rival's score in its own subset.
simple_squared_diff_rival(pv, method, prop_i, prop_j, lo, range) ==
    IF votes(pv, prop_i, prop_j) + votes(pv, prop_j, prop_i) > 0
    THEN LET score_i_in_subset_i ==
                 normalised_score(method, preference_subset(pv, prop_i, prop_j), prop_i, lo, range)
             score_j_in_subset_j ==
                 normalised_score(method, preference_subset(pv, prop_j, prop_i), prop_j, lo, range)
             diff == RSub(score_i_in_subset_i, score_j_in_subset_j)
         IN  RMul(diff, diff)
    ELSE RZero

\* diff ** 2 for one rival prop_j, 0 when the pair has no votes.
simple_squared_diff(pv, method, prop_i, prop_j, lo, range) ==
    IF votes(pv, prop_i, prop_j) + votes(pv, prop_j, prop_i) > 0
    THEN LET score_i_in_subset_i ==
                 normalised_score(method, preference_subset(pv, prop_i, prop_j), prop_i, lo, range)
             score_i_in_subset_j ==
                 normalised_score(method, preference_subset(pv, prop_j, prop_i), prop_i, lo, range)
             diff == RSub(score_i_in_subset_i, score_i_in_subset_j)
         IN  RMul(diff, diff)
    ELSE RZero

simple_squared_diffs_sum(pv, method, props, prop_i, lo, range) ==
    RSumSeq(Held([k \in DOMAIN props |->
        IF props[k] = prop_i THEN RZero
        ELSE simple_squared_diff(pv, method, prop_i, props[k], lo, range)]))

\* The body of divisiveness_simple after the method is resolved.
divisiveness_simple_scores(data, method) ==
    LET props == all_proposals(data)
        N == Len(props)
    IN  IF N < 2 THEN {degenerate(props)}
        ELSE LET pv == pair_votes(data)
                 global_scores == agg_func(method, pv)
             IN  UNION {sorted_frames(result_df) :
                     result_df \in {LET lo == min_score(global_scores)
                                        range == score_range(global_scores)
                                    IN  Held([i \in DOMAIN props |->
                         [proposal |-> props[i],
                          divisiveness |->
                              root_over(simple_squared_diffs_sum(pv, method, props, props[i],
                                                                 lo, range),
                                        N - 1)]])}}

divisiveness_simple(data, method) ==
    IF isinstance_str(method) /\ not_in_registry(method) THEN {unknown_method(method)}
    ELSE divisiveness_simple_scores(data, method)

\* The tables divisiveness_simple passes to agg_func, in the order of the
\* calls: the pair table, then for each prop_i and each rival prop_j with
\* votes, subset_i and subset_j when they have rows.
subset_call(subset) == IF Len(subset) > 0 THEN <<subset>> ELSE <<>>

divisiveness_simple_calls(data, method) ==
    IF isinstance_str(method) /\ not_in_registry(method) THEN <<>>
    ELSE LET props == all_proposals(data)
             pv == pair_votes(data)
         IN  IF Len(props) < 2 THEN <<>>
             ELSE <<pv>> \o Flatten(Held([i \in DOMAIN props |->
                      Flatten(Held([j \in DOMAIN props |->
                          IF i = j \/ votes(pv, props[i], props[j])
                                       + votes(pv, props[j], props[i]) <= 0
                          THEN <<>>
                          ELSE subset_call(preference_subset(pv, props[i], props[j]))
                               \o subset_call(preference_subset(pv, props[j], props[i]))]))]))

\* ------------------------------------------------------------------ state
VARIABLES
    data,     \* the caller's table of comparison records
    op,       \* the last operation called on it, with its parameters
    result    \* what that operation returned

vars == <<data, op, result>>

Record == [proposal : Proposals, wins_over : Proposals, count : Counts, voter : {1}]

Rec(w, l, c) == [proposal |-> w, wins_over |-> l, count |-> c, voter |-> 1]

\* Larger tables over three proposals: a cycle, a fully tied table, the
\* documentation's example in miniature (1 beats 2 and 3, 2 beats 3), a
\* table with a repeated pair and a proposal that only loses, a table
\* with a self-preference record, and a table where one pair is voted in
\* both directions and another pair not at all.
Scenarios ==
    { <<Rec(1, 2, 1), Rec(2, 3, 1), Rec(3, 1, 1)>>,
      <<Rec(1, 2, 2), Rec(1, 3, 2), Rec(2, 1, 2), Rec(2, 3, 2), Rec(3, 1, 2), Rec(3, 2, 2)>>,
      <<Rec(1, 2, 5), Rec(1, 3, 3), Rec(2, 1, 2), Rec(2, 3, 3), Rec(3, 1, 1), Rec(3, 2, 2)>>,
      <<Rec(1, 2, 1), Rec(2, 1, 3), Rec(1, 2, 1), Rec(1, 2, 2), Rec(2, 3, 0)>>,
      <<Rec(3, 3, 2), Rec(1, 3, 1), Rec(2, 1, 1), Rec(3, 2, 1)>>,
      <<Rec(1, 2, 2), Rec(2, 1, 1), Rec(1, 3, 1)>> }


RECURSIVE SeqsUpTo(_, _)
SeqsUpTo(S, n) ==
    IF n = 0 THEN {<<>>}
    ELSE LET shorter == SeqsUpTo(S, n - 1)
         IN  shorter \cup {Append(s, x) : s \in {t \in shorter : Len(t) = n - 1}, x \in S}

\* A record that counts for at least one vote.
Played == [proposal : Proposals, wins_over : Proposals, count : 1..MaxCount, voter : {1}]

\* The tables of fewer than MaxLen records, and the three-proposal ones.
ShortTables == SeqsUpTo(Record, MaxLen - 1) \cup Scenarios

\* Two records between two proposals, each with one vote or none.
TwoRecordTables ==
    {<<Rec(a, b, x), Rec(c, d, y)>> : a \in 1..2, b \in 1..2, c \in 1..2, d \in 1..2,
                                      x \in 0..1, y \in 0..1}

\* These, and the tables of up to MaxLen records that all count.
Tables == SeqsUpTo(Played, MaxLen) \cup TwoRecordTables \cup ShortTables

\* ahp's tolerance parameter: the default, one that stops the power method
\* early, and one that never does.
Tolerances == {default_tolerance, <<1, 10>>, <<0, 1>>}

NoCall == [name |-> "none"]

Init ==
    /\ data \in Tables
    /\ op = NoCall
    /\ result = <<>>

CallBorda ==
    /\ op = NoCall
    /\ op' = [name |-> "borda"]
    /\ result' \in {borda(data, proposals) : proposals \in list_of_set(universe(data))}
    /\ UNCHANGED data

CallCopeland ==
    /\ op = NoCall
    /\ op' = [name |-> "copeland"]
    /\ result' \in {copeland(data, proposals) : proposals \in list_of_set(universe(data))}
    /\ UNCHANGED data

CallWinrate ==
    /\ op = NoCall
    /\ op' = [name |-> "winrate"]
    /\ result' \in {winrate(data, proposals) : proposals \in list_of_set(universe(data))}
    /\ UNCHANGED data

\* An elo that leaves the caller's table in the reverse order.
CallEloInPlace ==
    \E iterations \in 1..MaxPasses :
        /\ op = NoCall
        /\ op' = [name |-> "elo", iterations |-> iterations]
        /\ \E ratings \in {elo_ratings(data, iterations)} :
               result' \in {elo_scores(ratings, proposals) :
                               proposals \in list_of_set(universe(data))}
        /\ data' = [i \in DOMAIN data |-> data[Len(data) + 1 - i]]

\* elo(data, iterations=iterations): the ratings, then the table for the list
\* the set gave.
CallElo ==
    \E iterations \in -1..MaxPasses :
        /\ op = NoCall
        /\ op' = [name |-> "elo", iterations |-> iterations]
        /\ \E ratings \in {elo_ratings(data, iterations)} :
               result' \in {elo_scores(ratings, proposals) :
                               proposals \in list_of_set(universe(data))}
        /\ UNCHANGED data

\* ahp(data, max_iterations=, tolerance=): the weights, then the table for
\* the order rounding left among them.
CallAhp ==
    \E max_iterations \in 0..MaxIter, tolerance \in Tolerances :
        /\ op = NoCall
        /\ op' = [name |-> "ahp", max_iterations |-> max_iterations,
                  tolerance |-> tolerance]
        /\ \E weights \in {ahp_weights(data, max_iterations, tolerance)} :
               result' \in {ahp_scores(data, weights, max_iterations, rounded) :
                               rounded \in roundings(data, max_iterations, tolerance)}
        /\ UNCHANGED data

\* The caller drops the result; the table is ready for the next call.
Return ==
    /\ op # NoCall
    /\ op' = NoCall
    /\ result' = <<>>
    /\ UNCHANGED data

CallAhpConsistencyRatio ==
    /\ op = NoCall
    /\ op' = [name |-> "ahp_consistency_ratio"]
    /\ result' = ahp_consistency_ratio(data)
    /\ UNCHANGED data

Next ==
    \/ CallBorda
    \/ CallCopeland
    \/ CallWinrate
    \/ CallElo
    \/ CallAhp
    \/ CallAhpConsistencyRatio
    \/ Return

Spec == Init /\ [][Next]_vars

\* ------------------------------------------ the caller reorders the table
swap(s, i) == [s EXCEPT ![i] = s[i + 1], ![i + 1] = s[i]]

Reordered == [name |-> "reorder"]

\* The caller exchanges two neighbouring records of the table.
Reorder ==
    \E i \in 1..(Len(data) - 1) :
        /\ data[i] # data[i + 1]
        /\ data' = swap(data, i)
        /\ op' = Reordered
        /\ result' = <<>>

NextOrder == Reorder

SpecOrder == Init /\ [][NextOrder]_vars

\* The registry's strategies whose divisiveness stays within the model's
\* integers (a squared elo rating and ahp's default of 100 iterations do not),
\* a name the registry does not hold, and the caller's own function.
Methods == {"borda", "copeland", "winrate", "median", wins_only}

\* The methods passed with a table. Every name of the registry is passed
\* with a table of at most MaxLen records of count 1 over two proposals in
\* which each side of the pair has a voter: there the ratings of elo are
\* compared with ratings, never with the 0.0 of an empty side, and ahp's
\* matrix is 2 by 2, so that the squares of the differences stay within the
\* integers and ahp, left at its 100 iterations, stops at its second
\* multiplication. With any other table the methods are those of Methods.
MethodsFor(table) ==
    IF /\ Len(table) <= MaxLen
       /\ Cardinality(universe(table)) = 2
       /\ \A i \in DOMAIN table : table[i].count = 1
       /\ \A x, y \in universe(table) : x # y => voters_over(table, x, y) # {}
    THEN Methods \cup {AGGREGATION_METHODS[k] : k \in DOMAIN AGGREGATION_METHODS}
    ELSE Methods

\* ------------------------------------------ the measure without voter ids
CallDivisivenessSimple ==
    /\ op = NoCall
    /\ \E method \in MethodsFor(data) :
           /\ op' = [name |-> "divisiveness_simple", method |-> method,
                     calls |-> divisiveness_simple_calls(data, method)]
           /\ result' \in divisiveness_simple(data, method)
           /\ UNCHANGED data

NextSimple == CallDivisivenessSimple \/ Return

SpecSimple == Init /\ [][NextSimple]_vars

\* ------------------------------------------------- voter-identified tables
Voters == 1..NumVoters

\* A voter's record of one preference; its count is 1.
VoterRecord == [proposal : Proposals, wins_over : Proposals, count : {1}, voter : Voters]

Vote(v, w, l) == [proposal |-> w, wins_over |-> l, count |-> 1, voter |-> v]

\* Tables over three proposals: the documentation's example, three voters
\* with the same two preferences, and two voters who disagree on every pair.
VoterScenarios ==
    { <<Vote(1, 1, 2), Vote(1, 1, 3), Vote(2, 2, 1), Vote(2, 2, 3), Vote(3, 1, 3), Vote(3, 2, 3)>>,
      <<Vote(1, 1, 2), Vote(1, 2, 3), Vote(2, 1, 2), Vote(2, 2, 3), Vote(3, 1, 2), Vote(3, 2, 3)>>,
      <<Vote(1, 1, 2), Vote(1, 2, 3), Vote(1, 1, 3), Vote(2, 2, 1), Vote(2, 3, 2), Vote(2, 3, 1)>> }

VoterTables == SeqsUpTo(VoterRecord, MaxLen) \cup VoterScenarios

InitDiv ==
    /\ data \in VoterTables
    /\ op = NoCall
    /\ result = <<>>

CallDivisiveness ==
    /\ op = NoCall
    /\ \E method \in MethodsFor(data) :
           /\ op' = [name |-> "divisiveness", method |-> method,
                     calls |-> divisiveness_calls(data, method)]
           /\ result' \in divisiveness(data, method)
           /\ UNCHANGED data

NextDiv == CallDivisiveness \/ Return

SpecDiv == InitDiv /\ [][NextDiv]_vars

\* ------------------------------ the caller reorders a voter-level table
\* The voter-level tables over the first two proposals, the three-proposal
\* ones, and a table in which a voter holds both directions of a pair.
TwoProposalRecord == [proposal : 1..2, wins_over : 1..2, count : {1}, voter : Voters]

OrderTables ==
    SeqsUpTo(TwoProposalRecord, MaxLen) \cup VoterScenarios
        \cup { <<Vote(1, 1, 2), Vote(1, 2, 1), Vote(2, 2, 1), Vote(2, 1, 2)>> }

InitDivOrder ==
    /\ data \in OrderTables
    /\ op = NoCall
    /\ result = <<>>

SpecDivOrder == InitDivOrder /\ [][NextOrder]_vars

\* ----------------------------------------------------------- elo alone
NextElo == CallElo \/ Return

SpecElo == Init /\ [][NextElo]_vars

\* ------------------------------------------------- the documented example
\* The records of the docstrings' example, A, B, C as 1, 2, 3.
ExampleRecords ==
    <<Rec(1, 2, 100), Rec(1, 3, 80), Rec(2, 1, 40), Rec(2, 3, 60), Rec(3, 1, 30), Rec(3, 2, 50)>>

\* The example's records in every order.
ExampleTables ==
    {[i \in 1..6 |-> ExampleRecords[f[i]]] :
        f \in {g \in [1..6 -> 1..6] : \A i, j \in 1..6 : i # j => g[i] # g[j]}}

InitExample ==
    /\ data \in ExampleTables
    /\ op = NoCall
    /\ result = <<>>

NextExample == CallBorda \/ CallCopeland \/ CallWinrate \/ Return

SpecExample == InitExample /\ [][NextExample]_vars

\* ------------------------------------------------------ every operation
InitAll ==
    /\ data \in ShortTables
    /\ op = NoCall
    /\ result = <<>>

NextAll == Next \/ CallDivisivenessSimple \/ CallDivisiveness

SpecAll == InitAll /\ [][NextAll]_vars

\* ------------------------------------------- the diagnostic on large tables
\* k proposals, each preferred once over the next.
Chain(k) == [i \in 1..(k - 1) |-> Rec(i, i + 1, 1)]

\* The same with the last preferred over the first, with each preferred
\* over the one before, with the first preferred over every other, and
\* with every other preferred over the first.
Ring(k) == Append(Chain(k), Rec(k, 1, 1))
Descent(k) == [i \in 1..(k - 1) |-> Rec(i + 1, i, 1)]
Star(k) == [i \in 1..(k - 1) |-> Rec(1, i + 1, 1)]
Sink(k) == [i \in 1..(k - 1) |-> Rec(i + 1, 1, 1)]

Chains == UNION {{Chain(k), Ring(k), Descent(k), Star(k), Sink(k)} : k \in 3..MaxSize}

InitRatio ==
    /\ data \in ShortTables \cup Chains
    /\ op = NoCall
    /\ result = <<>>

NextRatio == CallAhpConsistencyRatio \/ Return

SpecRatio == InitRatio /\ [][NextRatio]_vars

\* ------------------------------------------ ahp left to stop by itself
\* Tolerances the power method reaches within a few multiplications.
CoarseTolerances == {<<1, 10>>, <<1, 4>>, <<1, 2>>}

\* ahp with max_iterations left at its default.
CallAhpDefault ==
    \E tolerance \in CoarseTolerances :
        /\ op = NoCall
        /\ op' = [name |-> "ahp", max_iterations |-> default_max_iterations,
                  tolerance |-> tolerance]
        /\ \E weights \in {ahp_weights(data, default_max_iterations, tolerance)} :
               result' \in {ahp_scores(data, weights, default_max_iterations, rounded) :
                               rounded \in roundings(data, default_max_iterations, tolerance)}
        /\ UNCHANGED data

NextStop == CallAhpDefault \/ CallAhp \/ Return

SpecStop == InitAll /\ [][NextStop]_vars

\* ------------------------- every name of the registry, in both modes
NextDispatch == CallDivisivenessSimple \/ CallDivisiveness \/ Return

SpecDispatch == InitDivOrder /\ [][NextDispatch]_vars

\* ================================================================ claims
\* Read off the caller's raw records, independently of the strategies.

\* Sum of the counts of the records in which w is preferred over l.
RECURSIVE DirectedFrom(_, _, _)
DirectedFrom(t, w, l) ==
    IF t = <<>> THEN 0
    ELSE (IF Head(t).proposal = w /\ Head(t).wins_over = l THEN Head(t).count ELSE 0)
         + DirectedFrom(Tail(t), w, l)

V(w, l) == DirectedFrom(data, w, l)

\* Sum of the counts of the records w wins / l loses.
RECURSIVE WonFrom(_, _)
WonFrom(t, w) ==
    IF t = <<>> THEN 0
    ELSE (IF Head(t).proposal = w THEN Head(t).count ELSE 0) + WonFrom(Tail(t), w)

RECURSIVE LostFrom(_, _)
LostFrom(t, l) ==
    IF t = <<>> THEN 0
    ELSE (IF Head(t).wins_over = l THEN Head(t).count ELSE 0) + LostFrom(Tail(t), l)

\* Sum of the counts of the records in which x is the winner or the loser,
\* each record once.
RECURSIVE InvolvedFrom(_, _)
InvolvedFrom(t, x) ==
    IF t = <<>> THEN 0
    ELSE (IF Head(t).proposal = x \/ Head(t).wins_over = x THEN Head(t).count ELSE 0)
         + InvolvedFrom(Tail(t), x)

Universe == {data[i].proposal : i \in DOMAIN data} \cup {data[i].wins_over : i \in DOMAIN data}
OnlyLoses(p) == p \in Universe /\ \A i \in DOMAIN data : data[i].proposal # p
Scores == [i \in DOMAIN result |-> result[i].score]
Strategies == {"borda", "copeland", "winrate", "elo", "ahp"}
Reverse(s) == [i \in DOMAIN s |-> s[Len(s) + 1 - i]]

\* C2: whichever of the five strategies was called on a non-empty table, the
\* returned score table has exactly one row per proposal of the universe:
\* none missing, none twice, none from outside.
C2_OneRowPerAlternative ==
    (op.name \in Strategies /\ data # <<>>) =>
        /\ Len(result) = Cardinality(Universe)
        /\ {result[i].proposal : i \in DOMAIN result} = Universe

\* borda has returned for a table of three proposals one of which only loses.
C2_Witness ==
    /\ op.name = "borda"
    /\ Cardinality(Universe) = 3
    /\ \E p \in Universe : OnlyLoses(p) /\ \E i \in DOMAIN result : result[i].proposal = p

\* C3: every row borda returns holds the sum of the counts of all records
\* its proposal wins (0 for a proposal that never wins).
C3_BordaIsSumOfWonVotes ==
    op.name = "borda" =>
        \A i \in DOMAIN result :
            /\ result[i].score = RInt(WonFrom(data, result[i].proposal))
            /\ OnlyLoses(result[i].proposal) => result[i].score = RZero

\* borda has returned for a table that repeats a pair with positive counts
\* and holds a proposal that never wins.
C3_Witness ==
    /\ op.name = "borda"
    /\ \E i, j \in DOMAIN data :
          /\ i < j /\ data[i].count > 0 /\ data[j].count > 0
          /\ data[i].proposal = data[j].proposal
          /\ data[i].wins_over = data[j].wins_over
    /\ \E i \in DOMAIN result : OnlyLoses(result[i].proposal) /\ result[i].score = RZero

\* C4: every row copeland returns holds the number of rivals its proposal
\* outvotes minus the number that outvote it, on the summed directed votes.
C4_CopelandIsNetWins ==
    op.name = "copeland" =>
        \A i \in DOMAIN result :
            LET x == result[i].proposal
            IN  result[i].score =
                    RInt(Cardinality({y \in Universe : V(x, y) > V(y, x)})
                         - Cardinality({y \in Universe : V(y, x) > V(x, y)}))

\* copeland has returned for a table in which one pair is voted in both
\* directions, one direction repeated and winning only by its summed
\* counts, and another pair is tied.
C4_Witness ==
    /\ op.name = "copeland"
    /\ \E i, j, k \in DOMAIN data :
          /\ i # j
          /\ data[i].proposal = data[j].proposal /\ data[i].wins_over = data[j].wins_over
          /\ data[k].proposal = data[i].wins_over /\ data[k].wins_over = data[i].proposal
          /\ data[i].proposal # data[i].wins_over
          /\ V(data[i].proposal, data[i].wins_over) > data[k].count
          /\ data[i].count < data[k].count
    /\ \E x, y \in Universe : x # y /\ V(x, y) = V(y, x)

\* No pair of distinct proposals that the table compares is exactly tied.
NoExactTies ==
    \A x, y \in Universe :
        (x # y /\ \E i \in DOMAIN data :
            {data[i].proposal, data[i].wins_over} = {x, y}) => V(x, y) # V(y, x)

\* C5: when no compared pair is exactly tied, the scores copeland returns
\* sum to 0.
C5_CopelandSumsToZero ==
    (op.name = "copeland" /\ NoExactTies) => RSumSeq(Scores) = RZero

\* copeland has returned non-zero scores for a table of three proposals
\* without a tie.
C5_Witness ==
    /\ op.name = "copeland"
    /\ NoExactTies
    /\ Cardinality(Universe) = 3
    /\ \E i \in DOMAIN result : result[i].score # RZero

\* The win ratio over a number of matchups, 0 when there are none.
Ratio(won, matchups) == IF matchups = 0 THEN RZero ELSE Rat(won, matchups)

\* C6 as stated: every row winrate returns is the votes won over the votes
\* of the records in which the proposal is winner or loser (0 when those are
\* 0), and lies in [0, 1].
C6_WinrateOverRecordsInvolved ==
    op.name = "winrate" =>
        \A i \in DOMAIN result :
            LET x == result[i].proposal
            IN  /\ result[i].score = Ratio(WonFrom(data, x), InvolvedFrom(data, x))
                /\ RLeq(RZero, result[i].score) /\ RLeq(result[i].score, ROne)

\* C6 as amended: the denominator is the votes of the records the proposal
\* wins plus the votes of the records it loses, so a self-preference record
\* counts twice; the score is 0 when that is 0, and lies in [0, 1].
C6_WinrateOverWonPlusLost ==
    op.name = "winrate" =>
        \A i \in DOMAIN result :
            LET x == result[i].proposal
            IN  /\ result[i].score =
                       Ratio(WonFrom(data, x), WonFrom(data, x) + LostFrom(data, x))
                /\ RLeq(RZero, result[i].score) /\ RLeq(result[i].score, ROne)

\* winrate has returned for a table with a counted self-preference record
\* and a proposal without any counted matchup, which scores 0.
C6_Witness ==
    /\ op.name = "winrate"
    /\ \E i \in DOMAIN data : data[i].proposal = data[i].wins_over /\ data[i].count > 0
    /\ \E i \in DOMAIN result :
          /\ WonFrom(data, result[i].proposal) + LostFrom(data, result[i].proposal) = 0
          /\ result[i].score = RZero
    /\ \E i \in DOMAIN result : RLess(RZero, result[i].score)

\* C7: on a table with at least one proposal, whatever max_iterations and
\* tolerance, the scores ahp returns sum to 1.
C7_AhpSumsToOne ==
    (op.name = "ahp" /\ Universe # {}) => RSumSeq(Scores) = ROne

\* ahp has returned, after at least one multiplication, scores that are not
\* all equal.
C7_Witness ==
    /\ op.name = "ahp"
    /\ Universe # {}
    /\ op.max_iterations >= 1
    /\ \E i, j \in DOMAIN result : result[i].score # result[j].score

\* Every ordered pair of distinct proposals has the same summed count.
FullyTied ==
    \A x, y, z, w \in Universe : (x # y /\ z # w) => V(x, y) = V(z, w)

\* C8: on a fully tied table of n >= 1 proposals every one of them gets the
\* score 1/n.
C8_AhpTiedIsUniform ==
    (op.name = "ahp" /\ Universe # {} /\ FullyTied) =>
        \A i \in DOMAIN result : result[i].score = Rat(1, Cardinality(Universe))

\* ahp has iterated on a fully tied table of three proposals with positive
\* counts.
C8_Witness ==
    /\ op.name = "ahp"
    /\ op.max_iterations >= 1
    /\ FullyTied
    /\ Cardinality(Universe) = 3
    /\ \A x, y \in Universe : x # y => V(x, y) > 0
    /\ \A i \in DOMAIN result : result[i].score = <<1, 3>>

\* Two records with positive counts, each between two distinct proposals,
\* that share a proposal and are not the same directed pair.
TwoLinkedRecords ==
    /\ Len(data) = 2
    /\ \A i \in 1..2 : data[i].count > 0 /\ data[i].proposal # data[i].wins_over
    /\ {data[1].proposal, data[1].wins_over} \cap {data[2].proposal, data[2].wins_over} # {}
    /\ <<data[1].proposal, data[1].wins_over>> # <<data[2].proposal, data[2].wins_over>>

\* C9: elo walks the records in the order supplied, in every pass, and the
\* order shows in the result: for two linked records and at least one pass,
\* the ratings returned differ from those returned for the same two records
\* in the other order.
C9_EloDependsOnOrder ==
    (op.name = "elo" /\ op.iterations >= 1 /\ TwoLinkedRecords) =>
        \A proposals \in list_of_set(Universe) :
            LET other == elo(Reverse(data), op.iterations, proposals)
            IN  {result[i] : i \in DOMAIN result} # {other[i] : i \in DOMAIN other}

\* elo has made two passes over two linked records, and some proposal's
\* rating differs from its rating for the reversed table.
C9_Witness ==
    /\ op.name = "elo"
    /\ op.iterations = 2
    /\ TwoLinkedRecords
    /\ \E i \in DOMAIN result :
          \A proposals \in list_of_set(Universe) :
              LET other == elo(Reverse(data), op.iterations, proposals)
              IN  \A j \in DOMAIN other :
                      other[j].proposal = result[i].proposal => other[j].score # result[i].score
\* C10: aggregation does not depend on the order of the records. Whenever the
\* table's records are reordered, the pair table is the same and borda,
\* copeland, winrate and ahp give every alternative the same score as before.
ScoreOf(rows) == {<<rows[i].proposal, rows[i].score>> : i \in DOMAIN rows}

SameAggregation(d, e) ==
    /\ pair_votes(e) = pair_votes(d)
    /\ \A m \in {"borda", "copeland", "winrate"} :
           {ScoreOf(after) : after \in agg_func(m, e)}
               = {ScoreOf(before) : before \in agg_func(m, d)}
    /\ {ScoreOf(ahp_scores(e, weights, MaxIter, rounded)) :
           weights \in {ahp_weights(e, MaxIter, default_tolerance)},
           rounded \in roundings(e, MaxIter, default_tolerance)}
           = {ScoreOf(ahp_scores(d, weights, MaxIter, rounded)) :
                 weights \in {ahp_weights(d, MaxIter, default_tolerance)},
                 rounded \in roundings(d, MaxIter, default_tolerance)}

C10_AggregationIsOrderInvariant == [][op' = Reordered => SameAggregation(data, data')]_vars

\* A reordered table that records one directed pair more than once, with
\* different counts.
C10_Witness ==
    /\ op = Reordered
    /\ \E i, j \in DOMAIN data :
           /\ i < j
           /\ data[i].proposal = data[j].proposal
           /\ data[i].wins_over = data[j].wins_over
           /\ data[i].count # data[j].count

\* C1: when every voter expressed the same directed preferences with the same
\* counts, the voter-level measure gives every alternative divisiveness 0 and
\* a mean of 0.
IsZero(x) == \A k \in DOMAIN x.radicands : x.radicands[k] = RZero

VoterPairs(v) == pair_votes(voter_subset(data, {v}))

AllVotersAlike ==
    \A v, w \in {data[i].voter : i \in DOMAIN data} : VoterPairs(v) = VoterPairs(w)

C1_UnanimousHasNoDivisiveness ==
    (op.name = "divisiveness" /\ op.method \in {"borda", "copeland", "winrate"} /\ AllVotersAlike)
        => /\ IsZero(result.mean)
           /\ \A i \in DOMAIN result.table : IsZero(result.table[i].divisiveness)


\* The rows the strategy of a given name, or the caller's own function,
\* returns for a table, as a set: the list the strategy takes of its
\* proposals decides their order and not the rows, and the set is taken
\* from the ascending one.
RowsOf(frame) == {frame[i] : i \in DOMAIN frame}

StrategyNamed(m, t) ==
    CASE m = "borda" -> RowsOf(borda(t, sorted(universe(t))))
      [] m = "copeland" -> RowsOf(copeland(t, sorted(universe(t))))
      [] m = "winrate" -> RowsOf(winrate(t, sorted(universe(t))))
      [] m = "elo" -> RowsOf(elo(t, 1, sorted(universe(t))))
      [] m = "ahp" ->
             RowsOf(ahp(t, default_max_iterations, default_tolerance,
                        CHOOSE rounded \in roundings(t, default_max_iterations,
                                                     default_tolerance) : TRUE))
      [] m = wins_only -> RowsOf(sort_values(borda_scores(t)))

\* The voters with a record of x over y, and all the records of a set of voters.
VotersWho(x, y) ==
    {data[k].voter : k \in {i \in DOMAIN data : data[i].proposal = x /\ data[i].wins_over = y}}

RecordsOf(vs) == SelectSeq(data, LAMBDA r : r.voter \in vs)

\* x's score among the voters with a record of w over l: 0 when there is no
\* such voter or the strategy returns no row for x.
SideScore(m, x, w, l) ==
    IF VotersWho(w, l) = {} THEN RZero
    ELSE LET rows == StrategyNamed(m, RecordsOf(VotersWho(w, l)))
             hit == {row \in rows : row.proposal = x}
         IN  IF hit = {} THEN RZero ELSE (CHOOSE row \in hit : TRUE).score

Gap(m, x, y) == RSub(SideScore(m, x, x, y), SideScore(m, x, y, x))

RECURSIVE RSumOver(_, _, _)
RSumOver(S, m, x) ==
    IF S = {} THEN RZero
    ELSE LET y == CHOOSE y \in S : TRUE
             gap == Gap(m, x, y)
         IN  RAdd(RMul(gap, gap), RSumOver(S \ {y}, m, x))

\* Sum over the rivals y of x of the squared gap.
SumOfSquaredGaps(m, x) == RSumOver(Universe \ {x}, m, x)

ExactReturned ==
    /\ op.name = "divisiveness"
    /\ op.method \in {"borda", "copeland", "winrate", wins_only}
    /\ Cardinality(Universe) >= 2

\* C11: with N >= 2 alternatives the voter-level measure gives every X
\* sqrt(sum over Y # X of (a_XY - b_XY)^2) / (N - 1), a_XY and b_XY being X's
\* score among all the records of the voters of X over Y and of Y over X, and
\* the scalar it returns is the mean of these values over all X.
C11_ExactDivisivenessFormula ==
    ExactReturned =>
        LET N == Cardinality(Universe)
            rows == result.table
        IN  /\ {rows[i].proposal : i \in DOMAIN rows} = Universe
            /\ Len(rows) = N
            /\ \A sum \in {[x \in Universe |-> SumOfSquaredGaps(op.method, x)]} :
                   /\ \A i \in DOMAIN rows :
                          /\ rows[i].divisiveness.radicands = <<sum[rows[i].proposal]>>
                          /\ rows[i].divisiveness.over = N - 1
                   /\ result.mean.over = N * (N - 1)
                   /\ result.mean.radicands = [i \in DOMAIN rows |-> sum[rows[i].proposal]]

\* The measure has returned for three proposals where a voter of the first
\* over the second also holds a record on another pair, and some value is
\* not 0.
C11_Witness ==
    /\ ExactReturned
    /\ Cardinality(Universe) = 3
    /\ \E i, j \in DOMAIN data :
           /\ data[i].voter = data[j].voter
           /\ {data[i].proposal, data[i].wins_over} # {data[j].proposal, data[j].wins_over}
    /\ \E i \in DOMAIN result.table :
           result.table[i].divisiveness.radicands[1] # RZero


RECURSIVE RAbsSumOver(_, _, _)
RAbsSumOver(S, m, x) ==
    IF S = {} THEN RZero
    ELSE LET y == CHOOSE y \in S : TRUE
         IN  RAdd(RAbs(Gap(m, x, y)), RAbsSumOver(S \ {y}, m, x))

\* Sum over the rivals y of x of the absolute gap.
SumOfAbsGaps(m, x) == RAbsSumOver(Universe \ {x}, m, x)

\* C12: the voter-level measure is the docstring's D_i = (1 / (N - 1)) * the
\* sum over j # i of sqrt((S_i(P_i > P_j) - S_i(P_j > P_i))^2), the mean over
\* the rivals of the absolute gap: the returned sqrt(radicand) / (N - 1) has
\* radicand = (sum of the absolute gaps)^2.
C12_DocstringMeanAbsoluteGap ==
    ExactReturned =>
        \A i \in DOMAIN result.table :
            LET x == result.table[i]
                total == SumOfAbsGaps(op.method, x.proposal)
            IN  /\ x.divisiveness.over = Cardinality(Universe) - 1
                /\ x.divisiveness.radicands = <<RMul(total, total)>>

\* The sides called: ordered pairs (x, y) with some voter of x over y, each
\* met once as prop_i's side and once as the rival's side.
NonEmptySides ==
    Cardinality({pr \in Universe \X Universe :
                    pr[1] # pr[2] /\ VotersWho(pr[1], pr[2]) # {}})

RECURSIVE RSquaresOver(_, _, _)
RSquaresOver(S, m, x) ==
    IF S = {} THEN RZero
    ELSE LET y == CHOOSE y \in S : TRUE
             a == SideScore(m, x, x, y)
         IN  RAdd(RMul(a, a), RSquaresOver(S \ {y}, m, x))

\* C13: the voter-level measure completes without error when a side of a
\* rival pair has no voter; the strategy is run once per non-empty side and
\* never on an empty table, and an empty side, like a strategy result with no
\* row for X, counts as the score 0: for an X over which no voter ranks any
\* rival, the value is sqrt(sum over Y of a_XY^2) / (N - 1).
C13_EmptySideScoresZero ==
    ExactReturned =>
        /\ "raised" \notin DOMAIN result
        /\ Len(op.calls) = 2 * NonEmptySides
        /\ \A k \in DOMAIN op.calls : op.calls[k] # <<>>
        /\ \A i \in DOMAIN result.table :
               LET x == result.table[i].proposal
               IN  (\A y \in Universe \ {x} : VotersWho(y, x) = {}) =>
                       result.table[i].divisiveness.radicands
                           = <<RSquaresOver(Universe \ {x}, op.method, x)>>

\* The measure has returned, with the caller's function, for a pair with
\* voters on one side only, where the function returns no row for the
\* alternative that only loses.
C13_Witness ==
    /\ ExactReturned
    /\ op.method = wins_only
    /\ \E x, y \in Universe :
           /\ x # y
           /\ VotersWho(x, y) = {}
           /\ VotersWho(y, x) # {}
           /\ \A i \in DOMAIN data : data[i].voter \in VotersWho(y, x) => data[i].proposal # x
           /\ \A z \in Universe \ {x} : VotersWho(z, x) = {} \/ z = y
    /\ \E x \in Universe :
           /\ \A y \in Universe \ {x} : VotersWho(y, x) = {}
           /\ \E y \in Universe \ {x} : VotersWho(x, y) # {}


\* The caller's records aggregated per (winner, loser) pair, in key order,
\* without the rows a test on the pair rejects.
PairRows(keep(_, _)) ==
    LET keys == sortedPairs({<<data[i].proposal, data[i].wins_over>> : i \in DOMAIN data})
        kept == SelectSeq(keys, LAMBDA k : keep(k[1], k[2]))
    IN  [n \in DOMAIN kept |->
            [proposal |-> kept[n][1], wins_over |-> kept[n][2],
             count |-> V(kept[n][1], kept[n][2])]]

PairTable == PairRows(LAMBDA w, l : TRUE)

\* The pair table's rows of positive count without the row of y over x.
Prefers(x, y) == PairRows(LAMBDA w, l : V(w, l) > 0 /\ ~(w = y /\ l = x))

HasVotes(x, y) == V(x, y) + V(y, x) > 0

\* The sub-tables the strategy is to be run on, after the pair table: for
\* each x and each rival y with votes, in ascending order, "prefers x" and
\* "prefers y", each when it has a row.
SubTablesDue ==
    LET props == sorted(Universe)
        due(t) == IF Len(t) > 0 THEN <<t>> ELSE <<>>
    IN  Flatten([i \in DOMAIN props |-> Flatten([j \in DOMAIN props |->
            IF i = j \/ ~HasVotes(props[i], props[j]) THEN <<>>
            ELSE due(Prefers(props[i], props[j])) \o due(Prefers(props[j], props[i]))])])

\* x's normalised score in a sub-table, from the strategy's result on the
\* pair table and on the sub-table.
ScoreIn(m, x, t) ==
    LET global == StrategyNamed(m, PairTable)
        all == {row.score : row \in global}
        hi == CHOOSE s \in all : \A u \in all : RLeq(u, s)
        lo == CHOOSE s \in all : \A u \in all : RLeq(s, u)
        range == IF hi = lo THEN ROne ELSE RSub(hi, lo)
        rows == IF Len(t) > 0 THEN StrategyNamed(m, t) ELSE {}
        hit == {row \in rows : row.proposal = x}
    IN  IF hit = {} THEN RZero
        ELSE RDiv(RSub((CHOOSE row \in hit : TRUE).score, lo), range)

RECURSIVE SquaredOver(_, _, _)
SquaredOver(S, m, x) ==
    IF S = {} THEN RZero
    ELSE LET y == CHOOSE y \in S : TRUE
             d == RSub(ScoreIn(m, x, Prefers(x, y)), ScoreIn(m, x, Prefers(y, x)))
         IN  RAdd(RMul(d, d), SquaredOver(S \ {y}, m, x))

\* The rivals of x with a vote in either direction.
VotedRivals(x) == {y \in Universe \ {x} : HasVotes(x, y)}

Modes == {"divisiveness", "divisiveness_simple"}

RegistryNames == {"borda", "copeland", "ahp", "elo", "winrate"}

\* C14: in both modes, with fewer than two alternatives the call returns the
\* mean 0.0 and one row per alternative (none or one) with divisiveness 0.0,
\* runs no strategy and does no division by N - 1.
C14_DegenerateUniverse ==
    (op.name \in Modes /\ op.method \in RegistryNames \cup Callables
                       /\ Cardinality(Universe) < 2) =>
        /\ result.mean = zero_float
        /\ Len(result.table) = Cardinality(Universe)
        /\ \A i \in DOMAIN result.table :
               /\ result.table[i].proposal \in Universe
               /\ result.table[i].divisiveness = zero_float
        /\ op.calls = <<>>

\* Either mode has returned for a table whose only records are
\* self-preferences of one alternative.
C14_Witness ==
    /\ op.name \in Modes
    /\ op.method \in RegistryNames
    /\ Cardinality(Universe) = 1
    /\ Len(result.table) = 1

\* The records of a set of voters summed per (winner, loser) pair, in key
\* order: the table a strategy is given for them.
PairedRecordsOf(vs) ==
    LET rows == RecordsOf(vs)
        keys == sortedPairs({<<rows[i].proposal, rows[i].wins_over>> : i \in DOMAIN rows})
    IN  [n \in DOMAIN keys |->
            [proposal |-> keys[n][1], wins_over |-> keys[n][2],
             count |-> DirectedFrom(rows, keys[n][1], keys[n][2])]]

\* x's score by the strategy m among the voters with a record of w over l,
\* 0 when there is none.
ScoreAmong(m, x, w, l) ==
    IF VotersWho(w, l) = {} THEN RZero
    ELSE LET rows == StrategyNamed(m, PairedRecordsOf(VotersWho(w, l)))
             hit == {row \in rows : row.proposal = x}
         IN  IF hit = {} THEN RZero ELSE (CHOOSE row \in hit : TRUE).score

RECURSIVE SquaredAmong(_, _, _)
SquaredAmong(S, m, x) ==
    IF S = {} THEN RZero
    ELSE LET y == CHOOSE y \in S : TRUE
             d == RSub(ScoreAmong(m, x, x, y), ScoreAmong(m, x, y, x))
         IN  RAdd(RMul(d, d), SquaredAmong(S \ {y}, m, x))

\* The sum of squared differences a mode is to return for x with the
\* strategy m: in the mode with voter ids over the two sides of the voters,
\* in the mode without over the two sub-tables of each rival with votes.
SquaredDifferences(mode, m, x) ==
    IF mode = "divisiveness" THEN SquaredAmong(Universe \ {x}, m, x)
    ELSE SquaredOver(VotedRivals(x), m, x)

\* C15: in both modes a string method outside the registry raises an error
\* that names the method and lists the valid names, whatever the data (empty
\* and one-alternative tables included) and before any strategy is run; each
\* of the five valid names does not raise, and the values either mode
\* returns are those of the strategy of that name.
C15_UnknownMethodFailsFast ==
    op.name \in Modes =>
        /\ (isinstance_str(op.method) /\ op.method \notin RegistryNames) =>
               /\ result = [raised |-> "ValueError", method |-> op.method,
                            available |-> <<"borda", "copeland", "ahp", "elo", "winrate">>]
               /\ op.calls = <<>>
        /\ op.method \in RegistryNames =>
               /\ "raised" \notin DOMAIN result
               /\ Cardinality(Universe) >= 2 =>
                      \A i \in DOMAIN result.table :
                          result.table[i].divisiveness.radicands
                              = <<SquaredDifferences(op.name, op.method,
                                                     result.table[i].proposal)>>

\* Either mode was called with an unknown name on a table of fewer than two
\* alternatives and raised.
C15_Witness ==
    /\ op.name \in Modes
    /\ op.method = "median"
    /\ Cardinality(Universe) < 2
    /\ "raised" \in DOMAIN result

\* The mode named has returned for the method named with a value that is
\* not 0 and is not the one any other method of the registry gives.
Dispatched(mode, method) ==
    /\ op.name = mode
    /\ op.method = method
    /\ Cardinality(Universe) >= 2
    /\ \E i \in DOMAIN result.table :
           /\ result.table[i].divisiveness.radicands[1] # RZero
           /\ \A m \in RegistryNames \ {method} :
                  result.table[i].divisiveness.radicands[1]
                      # SquaredDifferences(mode, m, result.table[i].proposal)

C15_DispatchedAhp == Dispatched("divisiveness", "ahp")
C15_DispatchedElo == Dispatched("divisiveness", "elo")
C15_DispatchedAhpSimple == Dispatched("divisiveness_simple", "ahp")
C15_DispatchedEloSimple == Dispatched("divisiveness_simple", "elo")


\* The normalised score of x in the sub-table of the pair table that keeps
\* the row of keep over drop and loses the row of drop over keep.
NormalisedIn(x, keep, drop) ==
    LET pv == pair_votes(data)
        global_scores == agg_func(op.method, pv)
    IN  normalised_score(op.method, preference_subset(pv, keep, drop), x,
                         min_score(global_scores), score_range(global_scores))

InUnitInterval(q) == RLeq(RZero, q) /\ RLeq(q, ROne)

\* C16: in the mode without voter ids every subpopulation score of X, once
\* normalised as (score - global min) / (global max - global min), lies in
\* [0, 1] before it is differenced, for every rival pair with votes.
C16_NormalisedScoresInUnitInterval ==
    (op.name = "divisiveness_simple" /\ op.method \in RegistryNames
                                     /\ Cardinality(Universe) >= 2) =>
        \A x, y \in Universe :
            (x # y /\ V(x, y) + V(y, x) > 0) =>
                /\ InUnitInterval(NormalisedIn(x, x, y))
                /\ InUnitInterval(NormalisedIn(x, y, x))


AllOperations == Strategies \cup Modes \cup {"ahp_consistency_ratio"}

\* C17: with fewer than two alternatives (no record, or only self-preference
\* records) every operation returns a degenerate result and does not raise:
\* a strategy returns one row per alternative, the consistency diagnostic
\* (0.0, 0.0), and either mode of the measure the mean 0.0 with one row of
\* 0.0 per alternative.
C17_DegenerateNeverRaises ==
    (op.name \in AllOperations /\ Cardinality(Universe) < 2) =>
        /\ op.name \in Strategies =>
               /\ \A i \in DOMAIN result : "raised" \notin DOMAIN result[i]
               /\ Len(result) = Cardinality(Universe)
        /\ op.name = "ahp_consistency_ratio" => result = [CI |-> RZero, CR |-> RZero]
        /\ (op.name \in Modes /\ op.method \in RegistryNames) =>
               /\ "raised" \notin DOMAIN result
               /\ result.mean = zero_float
               /\ Len(result.table) = Cardinality(Universe)


\* What a call can return for the table and the parameters alone: the rows
\* of equal score in an order the table does not fix.
Outcome(o, t) ==
    CASE o.name = "borda" -> {borda(t, l) : l \in list_of_set(universe(t))}
      [] o.name = "copeland" -> {copeland(t, l) : l \in list_of_set(universe(t))}
      [] o.name = "winrate" -> {winrate(t, l) : l \in list_of_set(universe(t))}
      [] o.name = "elo" ->
             LET ratings == elo_ratings(t, o.iterations)
             IN  {elo_scores(ratings, l) : l \in list_of_set(universe(t))}
      [] o.name = "ahp" ->
             LET weights == ahp_weights(t, o.max_iterations, o.tolerance)
             IN  {ahp_scores(t, weights, o.max_iterations, r) : r \in roundings(t, o.max_iterations, o.tolerance)}
      [] o.name = "ahp_consistency_ratio" -> {ahp_consistency_ratio(t)}
      [] o.name = "divisiveness" -> divisiveness(t, o.method)
      [] o.name = "divisiveness_simple" -> divisiveness_simple(t, o.method)

\* C18: no operation modifies its input and nothing survives a call: every
\* step leaves the caller's table as it was, a call's result is one the
\* operation returns for the table and the parameters alone, every such
\* result of a strategy gives each proposal the same score and every such
\* result of a measure the same mean and the same value for each proposal
\* (two calls differ at most in the order of rows of equal score or value),
\* and once the result is dropped the state is that before the call.
C18_CallsLeaveNoTrace ==
    [][/\ data' = data
       /\ op' \in {NoCall} \/ result' \in Outcome(op', data)
       /\ op'.name \in Strategies =>
              \A other \in Outcome(op', data) :
                  \/ \E i \in DOMAIN other : "raised" \in DOMAIN other[i]
                  \/ ScoreOf(other) = ScoreOf(result')
       /\ op'.name \in Modes =>
              \A other \in Outcome(op', data) :
                  \/ "raised" \in DOMAIN other
                  \/ /\ other.mean = result'.mean
                     /\ RowsOf(other.table) = RowsOf(result'.table)
       /\ op' = NoCall => result' = <<>>]_vars

\* elo has returned ratings that moved for a table of at least two records.
C18_Witness ==
    /\ op.name = "elo"
    /\ Len(data) >= 2
    /\ \E i \in DOMAIN result : result[i].score # RInt(base_rating)


\* C19: for the records (A,B,100), (A,C,80), (B,A,40), (B,C,60), (C,A,30),
\* (C,B,50) borda returns A = 180, B = 100, C = 80, copeland returns A = +2,
\* B = 0, C = -2, and winrate returns 180/250 = 0.72 for A.
C19_WorkedExample ==
    /\ op.name = "borda" =>
           ScoreOf(result) = {<<1, RInt(180)>>, <<2, RInt(100)>>, <<3, RInt(80)>>}
    /\ op.name = "copeland" =>
           ScoreOf(result) = {<<1, RInt(2)>>, <<2, RInt(0)>>, <<3, RInt(-2)>>}
    /\ op.name = "winrate" =>
           \E i \in DOMAIN result :
               result[i].proposal = 1 /\ result[i].score = Rat(72, 100)

\* winrate has returned for the example with its records out of the
\* documented order.
C19_Witness ==
    /\ op.name = "winrate"
    /\ data # ExampleRecords
    /\ Len(result) = 3
    /\ result[1].proposal = 1

\* The rule applied to one record: both expected scores from the ratings
\* before the record, the winner's rating raised and the loser's lowered.
RuleStep(r, rec) ==
    LET W == rec.proposal
        L == rec.wins_over
        E_W == expected_score(r[W], r[L])
        E_L == expected_score(r[L], r[W])
        scaled == TDiv(k_factor * log1p(rec.count), 10)
        gain == TDiv(scaled * (FixedPoint - E_W), 10 * FixedPoint)
        loss == TDiv(scaled * (0 - E_L), 10 * FixedPoint)
    IN  [p \in DOMAIN r |->
            r[p] + (IF p = W THEN gain ELSE 0) + (IF p = L THEN loss ELSE 0)]

\* The ratings after the first n records of the given pass.
RECURSIVE RuleAfter(_, _)
RuleAfter(pass, n) ==
    IF pass <= 0 THEN [p \in Universe |-> base_rating * RatingUnit]
    ELSE IF n = 0 THEN RuleAfter(pass - 1, Len(data))
    ELSE RuleStep(RuleAfter(pass, n - 1), data[n])

PositiveRecords == SelectSeq(data, LAMBDA r : r.count > 0)

\* C20: every alternative starts at base_rating and, in each of the
\* `iterations` passes, each record (W, L, c) in order moves R_W by
\* k_factor * ln(1 + c) * (1 - E_W) and R_L by k_factor * ln(1 + c) * (0 - E_L),
\* E_W and E_L taken from the ratings before the record: one record of count
\* 1 between two alternatives, in one pass, gives 1000 + 16 ln 2 = 1011.09 and
\* 1000 - 16 ln 2 = 988.91; records of count 0 change nothing; with no pass
\* every rating is base_rating.
C20_EloUpdateRule ==
    op.name = "elo" =>
        /\ LET rule == RuleAfter(op.iterations, Len(data))
           IN  \A i \in DOMAIN result :
                   result[i].score = Rat(rule[result[i].proposal], RatingUnit)
        /\ (op.iterations = 1 /\ Len(data) = 1 /\ data[1].count = 1
                              /\ data[1].proposal # data[1].wins_over) =>
               ScoreOf(result) = {<<data[1].proposal, Rat(101109, 100)>>,
                                  <<data[1].wins_over, Rat(98891, 100)>>}
        /\ \A ratings \in {elo_ratings(PositiveRecords, op.iterations)},
              proposals \in list_of_set(universe(PositiveRecords)) :
               LET kept == elo_scores(ratings, proposals)
               IN  \A i \in DOMAIN result :
                       \/ \E j \in DOMAIN kept : kept[j] = result[i]
                       \/ /\ \A j \in DOMAIN kept : kept[j].proposal # result[i].proposal
                          /\ result[i].score = RInt(base_rating)
        /\ op.iterations <= 0 =>
               \A i \in DOMAIN result : result[i].score = RInt(base_rating)

\* elo has made two passes over two records of positive count that share an
\* alternative.
C20_Witness ==
    /\ op.name = "elo"
    /\ op.iterations = 2
    /\ TwoLinkedRecords
    /\ \A i \in DOMAIN result : result[i].score # RInt(base_rating)


SimpleReturned ==
    /\ op.name = "divisiveness_simple"
    /\ op.method \in {"borda", "copeland", "winrate", wins_only}
    /\ Cardinality(Universe) >= 2

\* C21: in the mode without voter ids, for each rival pair (X, Y) with
\* votes(X->Y) + votes(Y->X) > 0 the "prefers X" sub-table is the pair table
\* without the row of Y over X, every other row of positive count kept with
\* its count, and "prefers Y" the pair table without the row of X over Y; a
\* rival pair with no vote in either direction adds nothing to X's sum of
\* squared differences.
C21_SubsetConstruction ==
    SimpleReturned =>
        /\ op.calls = <<PairTable>> \o SubTablesDue
        /\ \A i \in DOMAIN result.table :
               result.table[i].divisiveness.radicands
                   = <<SquaredOver(VotedRivals(result.table[i].proposal), op.method,
                                   result.table[i].proposal)>>

\* The measure has returned for three proposals, one pair voted in both
\* directions with another row of positive count left in both sub-tables,
\* one pair without a vote, and a value that is not 0.
C21_Witness ==
    /\ SimpleReturned
    /\ Cardinality(Universe) = 3
    /\ \E x, y \in Universe : x # y /\ V(x, y) > 0 /\ V(y, x) > 0
                                    /\ Len(Prefers(x, y)) >= 2
    /\ \E x, y \in Universe : x # y /\ ~HasVotes(x, y)
    /\ \E i \in DOMAIN result.table :
           result.table[i].divisiveness.radicands[1] # RZero


\* ahp's matrix for the caller's table, and the vector the power method
\* holds after k multiplications when it has not stopped.
CountsMatrix == ahp_votes_matrix(sorted(Universe), pair_votes(data))
Matrix == ahp_matrix(sorted(Universe), pair_votes(data))

\* its[k + 1] is the vector after k multiplications, for k up to n.
RECURSIVE IteratesFrom(_, _, _)
IteratesFrom(M, w, n) ==
    IF n <= 0 THEN <<w>>
    ELSE <<w>> \o IteratesFrom(M, normalise(mat_vec(M, w)), n - 1)

Iterates(n) == IteratesFrom(Matrix, uniform(Cardinality(Universe)), n)

\* A rational with a denominator, and a table of such scores.
WellDefined(q) == q[2] > 0
AllWellDefined(rows) == \A i \in DOMAIN rows : WellDefined(rows[i].score)

\* C22: with non-negative counts no division by zero is reachable: winrate
\* divides by a total of matchups only when it is positive, in ahp (n >= 1)
\* the entries the ratios are divided by, the ratios and every normalising
\* sum are positive, ahp_consistency_ratio divides by n - 1 and by the
\* Random Index only for n >= 3, where both are positive, and both modes of
\* the measure divide by N - 1 >= 1, the mode without voter ids by a score
\* range that is 1 when all the global scores are equal; no returned score
\* is the quotient of a division by zero.
C22_NoDivisionByZero ==
    /\ op.name = "winrate" =>
           /\ AllWellDefined(result)
           /\ \A i \in DOMAIN result :
                  WonFrom(data, result[i].proposal) + LostFrom(data, result[i].proposal) = 0
                      => result[i].score = RZero
    /\ (op.name = "ahp" /\ Universe # {}) =>
           /\ AllWellDefined(result)
           /\ LET counted == CountsMatrix
                  M == Matrix
                  its == Iterates(op.max_iterations)
              IN  /\ \A i, j \in 1..Cardinality(Universe) :
                         /\ counted[i][j] > 0
                         /\ RLess(RZero, M[i][j])
                  /\ \A k \in 1..op.max_iterations :
                         RLess(RZero, RSumSeq(mat_vec(M, its[k])))
    /\ op.name = "ahp_consistency_ratio" =>
           IF Cardinality(Universe) <= 2 THEN result = [CI |-> RZero, CR |-> RZero]
           ELSE result.CI.over > 0 /\ RLess(RZero, result.CR.over)
    /\ (op.name \in Modes /\ op.method \in RegistryNames \cup {wins_only}) =>
           /\ result.mean.over > 0
           /\ \A i \in DOMAIN result.table :
                  /\ result.table[i].divisiveness.over > 0
                  /\ \A k \in DOMAIN result.table[i].divisiveness.radicands :
                         WellDefined(result.table[i].divisiveness.radicands[k])
           /\ op.name = "divisiveness_simple" =>
                  score_range(agg_func(op.method, pair_votes(data))) # RZero

\* The mode without voter ids has returned for a table whose global scores
\* are all equal, where the score range is replaced by 1.
C22_Witness ==
    /\ op.name = "divisiveness_simple"
    /\ op.method = "borda"
    /\ Cardinality(Universe) >= 2
    /\ max_score(agg_func("borda", pair_votes(data))) = min_score(agg_func("borda", pair_votes(data)))
    /\ \E i \in DOMAIN result.table : result.table[i].divisiveness.radicands[1] # RZero


\* The proposal at an index of ahp's matrix, and the matrix as the claim
\* states it: 1 on the diagonal, (1 + votes(i over j)) / (1 + votes(j over i))
\* elsewhere.
At(i) == sorted(Universe)[i]

Indices == 1..Cardinality(Universe)

CountsRatio(i, j) == IF i = j THEN ROne ELSE Rat(1 + V(At(i), At(j)), 1 + V(At(j), At(i)))

\* C23: the comparison matrix ahp and ahp_consistency_ratio build from any
\* records with non-negative counts has M[i,i] = 1 and M[i,j] * M[j,i] = 1
\* for i # j; a self-preference record does not change the diagonal.
C23_AhpMatrixIsReciprocal ==
    (op.name \in {"ahp", "ahp_consistency_ratio"} /\ Universe # {}) =>
        LET M == Matrix
        IN  /\ \A i \in Indices : M[i][i] = ROne
            /\ \A i, j \in Indices :
                   /\ M[i][j] = CountsRatio(i, j)
                   /\ i # j => RMul(M[i][j], M[j][i]) = ROne
            /\ (op.name = "ahp_consistency_ratio" /\ Cardinality(Universe) >= 3) =>
                   result.CI.lambda_max_of = M

\* The diagnostic has returned for three proposals, one of them with a
\* self-preference record of positive count, and a pair with unequal votes.
C23_Witness ==
    /\ op.name = "ahp_consistency_ratio"
    /\ Cardinality(Universe) = 3
    /\ \E x \in Universe : V(x, x) > 0
    /\ \E i, j \in Indices : i # j /\ result.CI.lambda_max_of[i][j] # ROne


\* The change between the vectors after k - 1 and k multiplications is below
\* the tolerance in every coordinate.
Below(its, k, tolerance) ==
    \A i \in DOMAIN its[k] : RLess(RAbs(RSub(its[k + 1][i], its[k][i])), tolerance)

NeverBelow(its) == \A k \in 1..op.max_iterations : ~Below(its, k, op.tolerance)

\* The scores a vector of weights gives, by proposal.
ScoresFrom(w) == {<<At(i), w[i]>> : i \in Indices}

\* The multiplication at which the loop is left, counted on the vectors: the
\* first whose change is below the tolerance, the max_iterations-th when
\* there is none.
LastMultiplication(its) ==
    LET below == {k \in 1..op.max_iterations : Below(its, k, op.tolerance)}
    IN  IF below = {} THEN op.max_iterations
        ELSE CHOOSE k \in below : \A j \in below : k <= j

\* C24: ahp's power method makes at most max_iterations multiplications and
\* then returns: as many as it takes for the largest change of a coordinate
\* to fall below the tolerance, and no more; when that change never falls
\* below the tolerance it makes exactly max_iterations of them and returns
\* the vector of the last, the max_iterations-th, without raising.
C24_AhpStopsAtMaxIterations ==
    (op.name = "ahp" /\ Universe # {}) =>
        LET made == ahp_multiplications(data, op.max_iterations, op.tolerance)
            its == Iterates(op.max_iterations)
        IN  /\ made >= 0
            /\ made <= op.max_iterations
            /\ made = LastMultiplication(its)
            /\ \A i \in DOMAIN result : "raised" \notin DOMAIN result[i]
            /\ NeverBelow(its) =>
                   /\ made = op.max_iterations
                   /\ ScoreOf(result) = ScoresFrom(its[op.max_iterations + 1])

\* ahp has returned after MaxIter multiplications, more than one and none of
\* them close to the one before, and the scores are those of none of the
\* earlier vectors.
C24_Witness ==
    /\ op.name = "ahp"
    /\ Universe # {}
    /\ op.tolerance = default_tolerance
    /\ op.max_iterations = MaxIter
    /\ op.max_iterations >= 2
    /\ NeverBelow(Iterates(op.max_iterations))
    /\ \A k \in 1..op.max_iterations :
           ScoreOf(result) # ScoresFrom(Iterates(op.max_iterations)[k])

\* ahp has left the loop at its second multiplication with a third allowed.
C24_StoppedShort ==
    /\ op.name = "ahp"
    /\ Universe # {}
    /\ op.max_iterations = MaxIter
    /\ ahp_multiplications(data, op.max_iterations, op.tolerance) = 2


\* C25: ahp_consistency_ratio returns (0.0, 0.0) for n <= 2 alternatives; for
\* n > 10 it divides by the Random Index of size 10, 1.49, while the
\* Consistency Index (lambda_max - n) / (n - 1) keeps the true n; ahp never
\* consults the diagnostic: a call of it leaves the table, and so every
\* score ahp returns for it, as they were.
C25_ConsistencyRatioEdges ==
    /\ [](op.name = "ahp_consistency_ratio" =>
             LET n == Cardinality(Universe)
             IN  IF n <= 2 THEN result = [CI |-> RZero, CR |-> RZero]
                 ELSE /\ result.CI.minus = n
                      /\ result.CI.over = n - 1
                      /\ result.CR.CI = result.CI
                      /\ result.CR.over = (IF n > 10 THEN <<149, 100>> ELSE RI[n]))
    /\ [][/\ data' = data
          /\ op.name = "ahp_consistency_ratio" => (op' = NoCall /\ result' = <<>>)]_vars

\* The diagnostic has returned for more than 10 proposals.
C25_Witness ==
    /\ op.name = "ahp_consistency_ratio"
    /\ Cardinality(Universe) > 10
    /\ result.CR.over = <<149, 100>>
    /\ result.CI.over = Cardinality(Universe) - 1


\* A table with one row per (winner, loser) pair, in ascending key order.
Canonical(t) ==
    \A k \in 1..(Len(t) - 1) :
        /\ PairLeq(<<t[k].proposal, t[k].wins_over>>, <<t[k + 1].proposal, t[k + 1].wins_over>>)
        /\ <<t[k].proposal, t[k].wins_over>> # <<t[k + 1].proposal, t[k + 1].wins_over>>

\* Every ordered pair of distinct proposals has a voter: no side of a split
\* is empty, and the squared differences of elo's ratings stay small.
Contested(d) ==
    \A x, y \in universe(d) : x # y => voters_over(d, x, y) # {}

\* The tables both modes pass to the strategy.
TablesPassed(d) == divisiveness_calls(d, "elo") \o divisiveness_simple_calls(d, "elo")

SameMeasure(d, e) ==
    /\ \A m \in {"borda", "copeland", "winrate"} :
           /\ divisiveness(e, m) = divisiveness(d, m)
           /\ divisiveness_simple(e, m) = divisiveness_simple(d, m)
    /\ Contested(d) => divisiveness(e, "elo") = divisiveness(d, "elo")
    /\ LET passed == TablesPassed(d)
       IN  /\ TablesPassed(e) = passed
           /\ \A k \in DOMAIN passed : Canonical(passed[k])

\* The caller's records by voter, winner, loser and count.
RecordKey(r) == <<r.voter, r.proposal, r.wins_over, r.count>>

KeyLess(a, b) ==
    \E k \in 1..4 : a[k] < b[k] /\ \A h \in 1..(k - 1) : a[h] = b[h]

InKeyOrder(d) ==
    LET before(j, i) == KeyLess(RecordKey(d[j]), RecordKey(d[i]))
                            \/ (RecordKey(d[j]) = RecordKey(d[i]) /\ j < i)
        rank(i) == Cardinality({j \in DOMAIN d : before(j, i)}) + 1
    IN  [k \in DOMAIN d |-> d[CHOOSE i \in DOMAIN d : rank(i) = k]]

\* C26: neither mode of the measure depends on the order of the caller's
\* records, for any strategy of the registry, elo included: every table the
\* strategy is run on (each sub-table, and the pair table in the mode
\* without voter ids) has been aggregated per (winner, loser) pair into key
\* order, so that in whatever order the caller leaves the records, the
\* tables passed and the values returned are those of one fixed order.
C26_MeasureIsOrderInvariant == op = Reordered => SameMeasure(InKeyOrder(data), data)

\* A reordered table, not in the fixed order, in which a voter of both
\* directions of a pair has two records that elo would rate differently in
\* the other order.
C26_Witness ==
    /\ op = Reordered
    /\ data # InKeyOrder(data)
    /\ Contested(data)
    /\ \E i, j \in DOMAIN data :
           /\ i < j
           /\ data[i].voter = data[j].voter
           /\ data[i].proposal # data[i].wins_over
           /\ data[i].proposal = data[j].wins_over
           /\ data[i].wins_over = data[j].proposal
           /\ \A one \in agg_func("elo", <<data[i], data[j]>>),
                 other \in agg_func("elo", <<data[j], data[i]>>) : ScoreOf(one) # ScoreOf(other)


\* C27: the scores copeland returns sum to 0 on every table, tied pairs
\* included (a decided pair adds one win and one loss, a tie neither), and
\* each of them lies between -(N - 1) and N - 1 for N alternatives.
C27_CopelandZeroSumAndBounded ==
    op.name = "copeland" =>
        LET N == Cardinality(Universe)
        IN  /\ RSumSeq(Scores) = RZero
            /\ \A i \in DOMAIN result :
                   /\ RLeq(RInt(-(N - 1)), result[i].score)
                   /\ RLeq(result[i].score, RInt(N - 1))

\* copeland has returned for a table with a tied pair of distinct proposals
\* and a score that is not 0, another pair being decided.
C27_Witness ==
    /\ op.name = "copeland"
    /\ \E i \in DOMAIN data :
           /\ data[i].proposal # data[i].wins_over
           /\ V(data[i].proposal, data[i].wins_over) = V(data[i].wins_over, data[i].proposal)
    /\ \E i \in DOMAIN result : result[i].score # RZero


\* The ratings elo holds after `pass` whole passes and the first n records
\* of the next, in hundredths of a point.
RatingsAfter(pass, n) ==
    elo_pass(elo_passes([p \in Universe |-> base_rating * RatingUnit],
                        elo_rows(data), pass),
             SubSeq(elo_rows(data), 1, n))

RECURSIVE SumOfRatings(_, _)
SumOfRatings(r, S) ==
    IF S = {} THEN 0
    ELSE LET x == CHOOSE x \in S : TRUE IN r[x] + SumOfRatings(r, S \ {x})

NoSelfPreference == \A i \in DOMAIN data : data[i].proposal # data[i].wins_over

\* C28: elo is zero-sum up to the rounding of its arithmetic. On records
\* with winner # loser, at every record of every pass E_W + E_L is 1, the
\* winner's gain k * ln(1 + c) * (1 - E_W) is the loser's loss
\* k * ln(1 + c) * E_L, each within one rounding, and so the ratings sum to
\* N * base_rating after every record update, and so do the scores
\* returned, within one rounding per update made. One rounding is what the
\* arithmetic of the ratings rounds away in one record update: a unit of
\* 1 / RatingUnit of a point, and of 1 / FixedPoint of an expected score.
C28_EloIsZeroSum ==
    (op.name = "elo" /\ NoSelfPreference) =>
        LET total == Cardinality(Universe) * base_rating * RatingUnit
            passes == IF op.iterations > 0 THEN op.iterations ELSE 0
        IN  /\ \A pass \in 0..(passes - 1), n \in 0..(Len(data) - 1) :
                   LET before == RatingsAfter(pass, n)
                       after == RatingsAfter(pass, n + 1)
                       W == data[n + 1].proposal
                       L == data[n + 1].wins_over
                   IN  /\ Abs(expected_score(before[W], before[L])
                                + expected_score(before[L], before[W]) - FixedPoint)
                              <= 1
                       /\ Abs((after[W] - before[W]) - (before[L] - after[L])) <= 1
                       /\ Abs(SumOfRatings(after, Universe) - total)
                              <= pass * Len(data) + n + 1
            /\ LET sum == RSumSeq(Scores)
               IN  /\ RatingUnit % sum[2] = 0
                   /\ Abs(sum[1] * (RatingUnit \div sum[2]) - total)
                          <= passes * Len(data)

\* elo has made two passes over at least three records between three
\* proposals, so that unequal ratings have met, and every rating has moved.
C28_Witness ==
    /\ op.name = "elo"
    /\ op.iterations = 2
    /\ NoSelfPreference
    /\ Len(data) >= 3
    /\ Cardinality(Universe) = 3
    /\ \A i \in DOMAIN result : result[i].score # RInt(base_rating)


\* The multiplications the call in progress has made, and the vectors up to
\* the last of them.
Made == ahp_multiplications(data, op.max_iterations, op.tolerance)
StoppedEarly(its, made) == made >= 1 /\ Below(its, made, op.tolerance)

\* C29: when ahp's power method stops at the multiplication whose vector is
\* within the tolerance of the current one in every coordinate, the scores
\* returned are the current vector, the one before that multiplication; when
\* the first multiplication already is, they are the uniform 1/n.
C29_AhpReturnsVectorBeforeTheStop ==
    (op.name = "ahp" /\ Universe # {}) =>
        LET made == Made
            its == Iterates(made)
        IN  StoppedEarly(its, made) =>
                /\ \A k \in 1..(made - 1) : ~Below(its, k, op.tolerance)
                /\ ScoreOf(result) = ScoresFrom(its[made])
                /\ made = 1 =>
                       \A i \in DOMAIN result :
                           result[i].score = Rat(1, Cardinality(Universe))

\* ahp, left at 100 iterations, has stopped at its second multiplication or a
\* later one, and the vector it returned is not the one that multiplication
\* gave.
C29_Witness ==
    /\ op.name = "ahp"
    /\ Universe # {}
    /\ op.max_iterations = default_max_iterations
    /\ LET made == Made
           its == Iterates(made)
       IN  /\ made >= 2
           /\ StoppedEarly(its, made)
           /\ its[made] # its[made + 1]
           /\ ScoreOf(result) = ScoresFrom(its[made])
           /\ ScoreOf(result) # ScoresFrom(its[made + 1])


\* The votes x has won over anyone, and the range of these over the universe.
RECURSIVE SumOfV(_, _)
SumOfV(x, S) ==
    IF S = {} THEN 0
    ELSE LET y == CHOOSE y \in S : TRUE IN V(x, y) + SumOfV(x, S \ {y})

RECURSIVE SumOfSquaredV(_, _)
SumOfSquaredV(x, S) ==
    IF S = {} THEN 0
    ELSE LET y == CHOOSE y \in S : TRUE IN V(x, y) * V(x, y) + SumOfSquaredV(x, S \ {y})

BordaRange ==
    LET won == {SumOfV(x, Universe) : x \in Universe}
        hi == CHOOSE s \in won : \A u \in won : u <= s
        lo == CHOOSE s \in won : \A u \in won : s <= u
    IN  IF hi = lo THEN 1 ELSE hi - lo

EveryPairVoted == \A x, y \in Universe : x # y => V(x, y) > 0

\* C30: in the mode without voter ids and with borda, when every ordered pair
\* of distinct alternatives has a positive aggregated count, X's normalised
\* score differs between "prefers X" and "prefers Y" by votes(X->Y) / R, R
\* the range max - min of the global Borda scores (1 if they are equal), and
\* divisiveness(X) is the root of the sum over Y # X of votes(X->Y)^2 / R^2,
\* over N - 1: no votes(Y->X) enters it but through R.
C30_BordaDifferenceIsOwnVotes ==
    (SimpleReturned /\ op.method = "borda" /\ EveryPairVoted) =>
        /\ \A x, y \in Universe : x # y =>
               RSub(ScoreIn("borda", x, Prefers(x, y)), ScoreIn("borda", x, Prefers(y, x)))
                   = Rat(V(x, y), BordaRange)
        /\ \A i \in DOMAIN result.table :
               LET X == result.table[i].proposal
               IN  /\ result.table[i].divisiveness.radicands
                          = <<Rat(SumOfSquaredV(X, Universe \ {X}), BordaRange * BordaRange)>>
                   /\ result.table[i].divisiveness.over = Cardinality(Universe) - 1

\* The measure has returned with borda for three proposals, every ordered
\* pair voted, some pair with unequal counts in its two directions, a range
\* that is not 1 and two values that differ.
C30_Witness ==
    /\ SimpleReturned
    /\ op.method = "borda"
    /\ EveryPairVoted
    /\ Cardinality(Universe) = 3
    /\ BordaRange > 1
    /\ \E x, y \in Universe : x # y /\ V(x, y) # V(y, x)
    /\ \E i, j \in DOMAIN result.table :
           result.table[i].divisiveness.radicands # result.table[j].divisiveness.radicands


====
